---- MODULE Spec2Model ----
(***************************************************************************)
(* State-machine model of the model-evaluator API.                         *)
(*                                                                         *)
(*  - the reference cache `clusters`, its builder loadClusters with the    *)
(*    bounded worker pool, and the /admin/reload_refs and /evaluate        *)
(*    handlers that start builds and read the cache (src/unnamed/part_000, *)
(*    the same code as src/unnamed/part_002 lines 144-564);                *)
(*  - the hosted embedding provider getEmbedding / tryEmbed with its       *)
(*    endpoint list, retry and backoff (src/unnamed/part_001).             *)
(*  - the scoring and the face matching of POST /evaluate in the servers   *)
(*    of the repository: src/unnamed/part_000 (centroids, LIGHT_MODE),     *)
(*    src/unnamed/part_001 (reference vectors, embedding through the       *)
(*    provider), the rule-only server at the head of src/unnamed/part_002  *)
(*    and the demo server src/server.mjs.                                  *)
(*                                                                         *)
(* Node runs one callback at a time: every action below is the code        *)
(* between two awaits of one async activation, so actions of different     *)
(* activations interleave only at awaits.                                  *)
(***************************************************************************)
EXTENDS Integers, Sequences, FiniteSets, TLC

VARIABLES
    clusters,   \* part_000:127  the published cache, a sequence of groups
    config,     \* part_000:10-18  credentials, REFERENCE_FOLDERS_JSON and the
                \* pool size; the server that runs and the requests its
                \* clients send
    lc,         \* one record per activation of loadClusters (its locals)
    ev,         \* one record per /evaluate request (its locals and response)
    embedCache, \* part_001:52  the memo, url -> vector
    ge,         \* one record per activation of getEmbedding (its locals)
    te          \* one record per /admin/test_embed request

cacheVars == <<clusters, config, lc, ev>>
provVars == <<embedCache, ge, te>>

---------------------------------------------------------------------------
(* Numbers: fixed point.  Vector components count in units of 1/Scale;     *)
(* Scale is a multiple of every sample count a group can have, so sum /    *)
(* count is exact.  Cosines and scores count in units of 1/One; One is a   *)
(* multiple of 10000 (the tie-break term counts in 1/10000) and of Scale.  *)
Scale == 3 * 4
One == 3 * 10000

Min(a, b) == IF a <= b THEN a ELSE b
Max(a, b) == IF a >= b THEN a ELSE b

\* part_000:17-18 (the configured values of this deployment)
MAX_REFS_PER_FOLDER == 3
MAX_EMBEDS_CONCURRENCY == 2

---------------------------------------------------------------------------
(* The environment: storage folders, their listings, the image vectors.    *)

\* Names the storage root listing returns (listRootFolders).
RootFolders == <<"Reference Female A", "Portfolio", "reference male B">>

\* The explicit list REFERENCE_FOLDERS_JSON holds when it is set and valid.
ExplicitFolders == <<"reference male B", "Reference Empty">>

\* What searchFolderAssets returns for a folder when storage answers.
FolderUrls(f) ==
    CASE f = "Reference Female A" -> <<"a1", "a2", "a3", "a4">>
      [] f = "reference male B"   -> <<"b1", "b2">>
      [] f = "Reference Female C" -> <<"c1", "c2", "c3">>
      [] f \in {"Male and Female", "FEMALE Faces", "Males", "Reference Mixed"}
                                  -> <<"a1">>
      [] OTHER                    -> <<>>

\* The vector embedOne yields for an image when it succeeds (part_000:122,
\* normalize: true: a vector of length one).  The component of c1 is 2^24
\* times that of c2 and of c3.
Vec(u) ==
    CASE u = "a1" -> <<Scale>>
      [] u = "a2" -> <<0 - Scale>>
      [] u = "a3" -> <<Scale>>
      [] u = "a4" -> <<0 - Scale>>
      [] u = "b1" -> <<0 - Scale>>
      [] u = "b2" -> <<Scale>>
      [] u = "p1" -> <<Scale>>
      [] u = "p2" -> <<0 - Scale>>
      [] u = "q1" -> <<Scale, 0>>
      [] u = "q2" -> <<0, Scale>>
      [] u = "q3" -> <<0 - Scale, 0>>
      [] u = "c1" -> <<16777216>>
      [] u = "c2" -> <<1>>
      [] u = "c3" -> <<1>>
      [] OTHER    -> <<0>>

\* Images whose embedding may fail (fetch error, decoder error).
Flaky == {"a2", "b1", "b2", "p2", "q1", "q2", "q3"}

EmbedOutcomes(u) == IF u \in Flaky THEN {TRUE, FALSE} ELSE {TRUE}

---------------------------------------------------------------------------
(* Folder names as characters, for the two tests the code makes on them.   *)

Chars(name) ==
    CASE name = "Reference Female A" ->
            <<"R","e","f","e","r","e","n","c","e"," ","F","e","m","a","l","e"," ","A">>
      [] name = "reference male B" ->
            <<"r","e","f","e","r","e","n","c","e"," ","m","a","l","e"," ","B">>
      [] name = "Reference Empty" ->
            <<"R","e","f","e","r","e","n","c","e"," ","E","m","p","t","y">>
      [] name = "Portfolio" ->
            <<"P","o","r","t","f","o","l","i","o">>
      [] name = "Reference Female C" ->
            <<"R","e","f","e","r","e","n","c","e"," ","F","e","m","a","l","e"," ","C">>
      [] name = "Male and Female" ->
            <<"M","a","l","e"," ","a","n","d"," ","F","e","m","a","l","e">>
      [] name = "FEMALE Faces" ->
            <<"F","E","M","A","L","E"," ","F","a","c","e","s">>
      [] name = "Males" ->
            <<"M","a","l","e","s">>
      [] name = "Reference Mixed" ->
            <<"R","e","f","e","r","e","n","c","e"," ","M","i","x","e","d">>
      [] OTHER -> <<>>

\* String.prototype.toLowerCase on the letters that occur.
LowerChar(c) ==
    CASE c = "R" -> "r" [] c = "F" -> "f" [] c = "A" -> "a" [] c = "B" -> "b"
      [] c = "E" -> "e" [] c = "P" -> "p" [] c = "M" -> "m" [] c = "L" -> "l"
      [] c = "C" -> "c" [] OTHER -> c

toLowerCase(s) == [i \in 1..Len(s) |-> LowerChar(s[i])]

\* String.prototype.includes
includes(s, pat) ==
    \E k \in 0..(Len(s) - Len(pat)) : \A i \in 1..Len(pat) : s[k + i] = pat[i]

\* part_000:94-99
inferGenderFromFolder(name) ==
    LET n == toLowerCase(Chars(name)) IN
    IF includes(n, <<"f","e","m","a","l","e">>) THEN "female"
    ELSE IF includes(n, <<"m","a","l","e">>) THEN "male"
    ELSE "unknown"

\* part_000:135  /^reference\s/i
IsReferenceName(name) ==
    LET n == toLowerCase(Chars(name)) IN
    /\ Len(n) >= 10
    /\ SubSeq(n, 1, 9) = <<"r","e","f","e","r","e","n","c","e">>
    /\ n[10] = " "

---------------------------------------------------------------------------
(* Vector arithmetic of the streaming centroid.                            *)

Zeros(n) == [i \in 1..n |-> 0]

RECURSIVE Quantum(_)
\* The spacing of the numbers with 24 significant binary digits around n >= 0.
Quantum(n) == IF n < 16777216 THEN 1 ELSE 2 * Quantum(n \div 2)

\* part_000:161-162  a store into a Float32Array keeps 24 significant binary
\* digits: the nearest such number, the one with an even last digit on a
\* tie.
fround(n) ==
    LET a  == IF n < 0 THEN 0 - n ELSE n
        q  == Quantum(a)
        lo == (a \div q) * q
        up == IF 2 * (a - lo) < q THEN lo
              ELSE IF 2 * (a - lo) > q THEN lo + q
              ELSE IF (lo \div q) % 2 = 0 THEN lo ELSE lo + q
    IN  IF n < 0 THEN 0 - up ELSE up

\* part_000:162  centroid[i] += v[i]  (a write past the end of a typed
\* array is dropped, a read past the end of v adds nothing in the loop)
VAdd(c, v) ==
    [i \in 1..Len(c) |-> IF i <= Len(v) THEN fround(c[i] + v[i]) ELSE c[i]]

\* part_000:172  centroid[i] /= count
VDiv(c, n) == [i \in 1..Len(c) |-> c[i] \div n]

Take(s, n) == SubSeq(s, 1, Min(n, Len(s)))
Drop(s, n) == SubSeq(s, Min(n, Len(s)) + 1, Len(s))

---------------------------------------------------------------------------
(* GET /admin/reload_refs and loadClusters, part_000:138-194.              *)
(*                                                                         *)
(* An action runs from the completion of one storage or embedding call to  *)
(* the next such call of the same activation: the continuations of         *)
(* promises this code settles itself (a worker returning, Promise.all, the *)
(* handler's await of loadClusters) run in the same turn of the event loop *)
(* and are part of the action.                                             *)

Builds == {"reload1", "reload2"}

NoWorker == "exit"

IdleBuild ==
    [pc |-> "idle", status |-> 0, resp |-> <<>>,
     folderNames |-> <<>>, fi |-> 0, out |-> <<>>,
     urls |-> <<>>, queue |-> <<>>, workers |-> <<>>,
     centroid |-> <<>>, count |-> 0,
     \* what an observer of embedOne sees, folder by folder: the URLs whose
     \* call returned a vector, in the order of return, and the URLs whose
     \* call threw
     oks |-> <<>>, fails |-> <<>>]

Running(b) == lc[b].pc \in {"discover", "list", "embed"}

\* part_000:142-145  the folder names the loop goes over
WithFolders(r, names) ==
    [r EXCEPT !.folderNames = names,
              !.oks = [i \in 1..Len(names) |-> <<>>],
              !.fails = [i \in 1..Len(names) |-> {}]]

\* part_000:159-166  the embedOne call for url returned (ok) or threw
Observe(r, url, ok) ==
    IF ok THEN [r EXCEPT !.oks[r.fi] = Append(@, url)]
    ELSE [r EXCEPT !.fails[r.fi] = @ \cup {url}]

\* part_000:156  the number of workers created for a group
NWorkers(urls) == Min(config.pool, Len(urls))

\* A faulty variant of SpawnWorkers: no worker is made.
SpawnWorkersNone(urls) == [workers |-> <<>>, queue |-> urls]

\* A faulty variant of SpawnWorkers: every worker starts on the first URL.
SpawnWorkersSame(urls) ==
    LET n == NWorkers(urls) IN
    [workers |-> [k \in 1..n |-> urls[1]], queue |-> Drop(urls, n)]

\* part_000:155-158  Array.map runs each worker up to its first await:
\* worker k shifts a URL off the queue and calls embedOne on it.
SpawnWorkers(urls) ==
    LET n == NWorkers(urls) IN
    [workers |-> [k \in 1..n |-> urls[k]], queue |-> Drop(urls, n)]

\* A faulty variant of Publish: the groups are pushed without emptying the
\* array first.
PublishAppend(out) == clusters \o out

\* part_000:178-179  clusters.length = 0; clusters.push(...out)
Publish(out) == out

\* A faulty variant of Listed: the response lists the first group only.
ListedFirst(cs) ==
    [i \in 1..Min(1, Len(cs)) |->
        [label |-> cs[i].label, gender |-> cs[i].gender, size |-> cs[i].size]]

\* part_000:189  the groups the reload response lists
Listed(cs) ==
    [i \in 1..Len(cs) |->
        [label |-> cs[i].label, gender |-> cs[i].gender, size |-> cs[i].size]]

\* part_000:190-192  loadClusters threw: the handler answers 500
Fail(r) == [r EXCEPT !.pc = "failed", !.status = 500]

\* part_000:145-146, 178-181 and 189: the loop goes on to folder i and calls
\* searchFolderAssets, or, past the last folder, publishes, returns, and the
\* handler answers with the groups it reads from clusters.
Advance(r, i) ==
    LET r0 == [r EXCEPT !.fi = i, !.urls = <<>>, !.queue = <<>>,
                        !.workers = <<>>, !.centroid = <<>>, !.count = 0]
    IN  IF i <= Len(r.folderNames)
        THEN [r0 EXCEPT !.pc = "list"]
        ELSE [r0 EXCEPT !.pc = "done", !.status = 200,
                        !.resp = Listed(Publish(r.out))]

\* A faulty variant of AdvanceCache: the cache is emptied when the loop
\* enters a folder instead of when the build publishes.
AdvanceCacheClearing(r, i) ==
    IF i <= Len(r.folderNames) THEN <<>> ELSE Publish(r.out)

\* part_000:178-179  what clusters holds after the loop went on to folder i
AdvanceCache(r, i) ==
    IF i <= Len(r.folderNames) THEN clusters ELSE Publish(r.out)

\* part_000:184-188, 139-142 and 130-133: the handler checks the token and
\* LIGHT_MODE and calls loadClusters, which throws without credentials or
\* on an invalid REFERENCE_FOLDERS_JSON, takes the explicit folder list, or
\* calls listRootFolders.
ReloadRefs(b) ==
    /\ lc[b].pc = "idle"
    /\ \E tokenOk \in BOOLEAN :
         LET r == lc[b]
             explicit == WithFolders(r, config.folders)
             step ==
               IF ~tokenOk THEN [r EXCEPT !.pc = "refused", !.status = 401]
               ELSE IF config.light THEN [r EXCEPT !.pc = "skipped", !.status = 200]
               ELSE IF ~config.creds THEN Fail(r)
               ELSE IF config.refJson = "invalid" THEN Fail(r)
               ELSE IF config.refJson = "list" THEN Advance(explicit, 1)
               ELSE [r EXCEPT !.pc = "discover"]
         IN  /\ lc' = [lc EXCEPT ![b] = step]
             /\ clusters' = IF step.pc = "done" THEN Publish(step.out)
                            ELSE clusters
    /\ UNCHANGED <<config, ev, provVars>>

\* part_000:134-135 and 142-146: listRootFolders returns or throws.
DiscoverDone(b) ==
    /\ lc[b].pc = "discover"
    /\ \E ok \in BOOLEAN :
         LET r == WithFolders(lc[b], SelectSeq(RootFolders, IsReferenceName))
         IN  IF ~ok
             THEN /\ lc' = [lc EXCEPT ![b] = Fail(lc[b])]
                  /\ UNCHANGED clusters
             ELSE /\ lc' = [lc EXCEPT ![b] = Advance(r, 1)]
                  /\ clusters' = AdvanceCache(r, 1)
    /\ UNCHANGED <<config, ev, provVars>>

\* part_000:146-156: searchFolderAssets throws, returns nothing, or returns
\* the listing, whose first MAX_REFS_PER_FOLDER URLs feed the worker pool.
\* With a pool of size 0 no worker is made, Promise.all of no promise
\* resolves at once, count stays 0 and the loop goes on.
ListDone(b) ==
    /\ lc[b].pc = "list"
    /\ \E ok \in BOOLEAN :
         LET r       == lc[b]
             urlsAll == FolderUrls(r.folderNames[r.fi])
             urls    == Take(urlsAll, MAX_REFS_PER_FOLDER)
             sp      == SpawnWorkers(urls)
         IN  IF ~ok
             THEN /\ lc' = [lc EXCEPT ![b] = Fail(r)]
                  /\ UNCHANGED clusters
             ELSE IF Len(urlsAll) = 0 \/ NWorkers(urls) = 0
             THEN /\ lc' = [lc EXCEPT ![b] = Advance(r, r.fi + 1)]
                  /\ clusters' = AdvanceCache(r, r.fi + 1)
             ELSE /\ lc' = [lc EXCEPT ![b] =
                              [r EXCEPT !.pc = "embed", !.urls = urls,
                                        !.queue = sp.queue,
                                        !.workers = sp.workers]]
                  /\ UNCHANGED clusters
    /\ UNCHANGED <<config, ev, provVars>>

\* part_000:171-174: the group made from the running sum and count.
MakeGroup(fname, centroid, count) ==
    [label |-> fname, gender |-> inferGenderFromFolder(fname),
     size |-> count, centroid |-> VDiv(centroid[1], count)]

\* part_000:171  a group is kept when at least one image embedded
KeepGroup(count) == count > 0

\* A faulty variant of Fold: the vector replaces the running sum.
FoldLast(r, v) ==
    [r EXCEPT !.centroid = <<v>>, !.count = r.count + 1]

\* part_000:161-163  a vector folded into the running sum and count
Fold(r, v) ==
    LET c0 == IF r.centroid = <<>> THEN Zeros(Len(v)) ELSE r.centroid[1]
    IN  [r EXCEPT !.centroid = <<VAdd(c0, v)>>, !.count = r.count + 1]

\* part_000:157-158  the worker takes the next URL off the shared queue and
\* calls embedOne, or returns when the queue is empty
NextUrl(r, w) ==
    IF Len(r.queue) > 0
    THEN [r EXCEPT !.workers[w] = Head(r.queue), !.queue = Tail(r.queue)]
    ELSE [r EXCEPT !.workers[w] = NoWorker]

\* A faulty variant of FinishGroup: the group is pushed whatever its count.
FinishGroupAlways(r) ==
    [r EXCEPT !.out = Append(r.out,
        [label |-> r.folderNames[r.fi],
         gender |-> inferGenderFromFolder(r.folderNames[r.fi]),
         size |-> r.count,
         centroid |-> IF r.count > 0 THEN VDiv(r.centroid[1], r.count) ELSE <<>>])]

\* part_000:169-174  after Promise.all the group is pushed when count > 0
FinishGroup(r) ==
    IF KeepGroup(r.count)
    THEN [r EXCEPT !.out = Append(r.out,
             MakeGroup(r.folderNames[r.fi], r.centroid, r.count))]
    ELSE r

\* part_000:157-179: one embedOne call of worker w returns or throws; the
\* worker folds the vector, then takes the next URL or returns; when the
\* last worker has returned the group is finished and the loop goes on.
EmbedDone(b) ==
    /\ lc[b].pc = "embed"
    /\ \E w \in DOMAIN lc[b].workers :
       /\ lc[b].workers[w] # NoWorker
       /\ \E ok \in EmbedOutcomes(lc[b].workers[w]) :
         \E r0 \in {Observe(lc[b], lc[b].workers[w], ok)} :
         \E r1 \in {IF ok THEN Fold(r0, Vec(lc[b].workers[w])) ELSE r0} :
         \E r2 \in {NextUrl(r1, w)} :
         \E r3 \in {FinishGroup(r2)} :
             IF \E x \in DOMAIN r2.workers : r2.workers[x] # NoWorker
             THEN /\ lc' = [lc EXCEPT ![b] = r2]
                  /\ UNCHANGED clusters
             ELSE /\ lc' = [lc EXCEPT ![b] = Advance(r3, lc[b].fi + 1)]
                  /\ clusters' = AdvanceCache(r3, lc[b].fi + 1)
    /\ UNCHANGED <<config, ev, provVars>>

---------------------------------------------------------------------------
(* GET /admin/test_embed, part_000:196-207.                                *)

Tests == {"t1"}

\* The url parameters the requests carry; "" stands for a missing one.
TestUrls == {"", "a1", "a2"}

\* url: the parameter; status, dim: the response.
IdleTest == [pc |-> "idle", url |-> "", status |-> 0, dim |-> 0]

\* part_000:196-202: the handler checks the token, LIGHT_MODE and the url
\* and calls embedOne.
TestEmbed(t) ==
    /\ te[t].pc = "idle"
    /\ \E tokenOk \in BOOLEAN, url \in TestUrls :
         te' = [te EXCEPT ![t] =
            IF ~tokenOk THEN [@ EXCEPT !.pc = "refused", !.status = 401]
            ELSE IF config.light THEN [@ EXCEPT !.pc = "skipped", !.status = 200]
            ELSE IF url = "" THEN [@ EXCEPT !.pc = "done", !.status = 400]
            ELSE [@ EXCEPT !.pc = "embed", !.url = url]]
    /\ UNCHANGED <<cacheVars, embedCache, ge>>

\* part_000:202-206: embedOne returns and the handler answers with the
\* length of the vector, or embedOne throws and the handler answers 500.
TestEmbedDone(t) ==
    /\ te[t].pc = "embed"
    /\ \E ok \in EmbedOutcomes(te[t].url) :
         te' = [te EXCEPT ![t] =
            IF ok THEN [@ EXCEPT !.pc = "done", !.status = 200,
                                 !.dim = Len(Vec(te[t].url))]
            ELSE [@ EXCEPT !.pc = "done", !.status = 500]]
    /\ UNCHANGED <<cacheVars, embedCache, ge>>

---------------------------------------------------------------------------
(* Vector math of the matcher.                                             *)

RECURSIVE SqrtBetween(_, _, _)
\* the largest r in lo..hi with r * r <= n
SqrtBetween(n, lo, hi) ==
    IF lo >= hi THEN lo
    ELSE LET mid == (lo + hi + 1) \div 2 IN
         IF mid * mid <= n THEN SqrtBetween(n, mid, hi)
         ELSE SqrtBetween(n, lo, mid - 1)

\* Math.sqrt on the integers (exact on squares); 46340 is the largest
\* integer whose square is a 32-bit integer
Sqrt(n) == SqrtBetween(n, 0, Min(n, 46340))

RECURSIVE SumTo(_, _)
SumTo(f, n) == IF n = 0 THEN 0 ELSE SumTo(f, n - 1) + f[n]

\* A faulty variant of cosine: the magnitudes are those of the whole
\* vectors.
cosineWhole(a, b) ==
    LET L   == Min(Len(a), Len(b))
        dot == SumTo([i \in 1..L |-> a[i] * b[i]], L)
        na  == SumTo([i \in 1..Len(a) |-> a[i] * a[i]], Len(a))
        nb  == SumTo([i \in 1..Len(b) |-> b[i] * b[i]], Len(b))
    IN  IF na # 0 /\ nb # 0
        THEN (dot * One * 100) \div Sqrt(na * nb * 10000)
        ELSE 0

\* part_000:53-61  a number in units of 1/One; the root is taken to two
\* more decimals than the vectors carry
cosine(a, b) ==
    LET L   == Min(Len(a), Len(b))
        dot == SumTo([i \in 1..L |-> a[i] * b[i]], L)
        na  == SumTo([i \in 1..L |-> a[i] * a[i]], L)
        nb  == SumTo([i \in 1..L |-> b[i] * b[i]], L)
    IN  IF na # 0 /\ nb # 0
        THEN (dot * One * 100) \div Sqrt(na * nb * 10000)
        ELSE 0

\* part_000:43  clamp(x, a = 0, b = 1)
clamp(x, a, b) == Max(a, Min(b, x))

RECURSIVE VSum(_, _, _)
\* part_000:286  the first dim components of the vectors vs[1..n], summed
VSum(vs, n, dim) ==
    IF n = 0 THEN Zeros(dim)
    ELSE LET s == VSum(vs, n - 1, dim) IN
         [i \in 1..dim |-> IF i <= Len(vs[n]) THEN s[i] + vs[n][i] ELSE s[i]]

\* part_000:284-287  the submission vector
Average(photoVecs) ==
    VDiv(VSum(photoVecs, Len(photoVecs), Len(photoVecs[1])), Len(photoVecs))

RECURSIVE BestMatch(_, _, _)
\* part_000:289-293  the scan over cs[1..n]: a later group replaces the best
\* one only when its similarity is strictly greater
BestMatch(avg, cs, n) ==
    IF n = 0 THEN [maxSim |-> 0 - One, bestLabel |-> "none"]
    ELSE LET best == BestMatch(avg, cs, n - 1)
             s    == cosine(avg, cs[n].centroid)
         IN  IF s > best.maxSim
             THEN [maxSim |-> s, bestLabel |-> cs[n].label]
             ELSE best

\* part_000:283-291  the values of s in the scan over cs, none when no
\* photo embedded
ScanSims(photoVecs, cs) ==
    IF Len(photoVecs) = 0 THEN <<>>
    ELSE [i \in 1..Len(cs) |-> cosine(Average(photoVecs), cs[i].centroid)]

\* A faulty variant of NeutralFace: the neutral score is 0.
NeutralFaceZero(reason) ==
    [faceScore |-> 0, faceCluster |-> "none", faceReason |-> reason]

\* part_000:276  the neutral face result
NeutralFace(reason) ==
    [faceScore |-> One \div 2, faceCluster |-> "none", faceReason |-> reason]

\* part_000:283-301  the face result from the embedded photos and the groups
\* the scan reads
FaceResult(photoVecs, cs) ==
    IF Len(photoVecs) = 0 THEN NeutralFace("no valid photos to analyze")
    ELSE LET best == BestMatch(Average(photoVecs), cs, Len(cs))
             faceScore == clamp((best.maxSim + One) \div 2, 0, One)
         IN  [faceScore |-> faceScore, faceCluster |-> best.bestLabel,
              faceReason |->
                 IF 100 * faceScore >= 70 * One
                    THEN "face matches reference look"
                 ELSE IF 100 * faceScore >= 55 * One
                    THEN "some similarity to reference look"
                 ELSE "low similarity to reference look"]

---------------------------------------------------------------------------
(* The requests to POST /evaluate.                                         *)

Evals == {"e1"}

\* part_000:280  photos.slice(0, 5)
PhotoCap == 5

MaxPhotos == 2

PhotoUrls == {"p1", "p2"}

\* The photos fields requests carry; <<>> stands for every value the
\* validation refuses.
PhotoInputs ==
    {<<>>} \cup UNION {[1..n -> PhotoUrls] : n \in 1..MaxPhotos}

\* Photo lists of one, two, three and six URLs over images that embed to
\* two-component vectors.
LongPhotoInputs ==
    { <<"q1">>, <<"q3">>, <<"q1", "q2">>, <<"q1", "q2", "q3">>,
      <<"q1", "q1", "q1", "q1", "q1", "q3">>,
      <<"q1", "q2", "q3", "q1", "q2", "q3">> }

\* The gender fields requests carry, as characters: absent, "female", "Male".
Genders == { <<>>, <<"f","e","m","a","l","e">>, <<"M","a","l","e">> }

\* The height_cm fields requests carry; 0 stands for an absent field.
Heights == {0, 177, 186, 192}

\* The measurements fields requests carry, as characters: absent,
\* "82-60-88", "92-75-92", "82-60", "70-60-88".
MeasInputs ==
    { <<>>,
      <<"8","2","-","6","0","-","8","8">>,
      <<"9","2","-","7","5","-","9","2">>,
      <<"8","2","-","6","0">>,
      <<"7","0","-","6","0","-","8","8">> }

\* JSON values that are not strings, each as a one-word sequence: a number
\* other than 0, the number 0, an object, true, null.
NonStrings == { <<"number">>, <<"zero">>, <<"object">>, <<"true">>, <<"null">> }

\* typeof v === "string"; <<>> stands for "" and for an absent field alike.
IsString(v) == v \notin NonStrings

\* The truthiness of a JSON value.
Truthy(v) == v \notin { <<>>, <<"zero">>, <<"null">> }

\* A photos field that is not an array; <<>> stands for [] and for an absent
\* field alike (part_000:217 gives an absent field the default []).
NotArray == <<"not an array">>

\* part_000:218  Array.isArray(photos)
isArray(photos) == photos # NotArray

\* The gender fields of the scoring requests: those of Genders, "m", "man",
\* "other" and the values that are not strings.
ScoreGenders ==
    Genders \cup { <<"m">>, <<"M","a","n">>, <<"o","t","h","e","r">> }
            \cup NonStrings

\* A height_cm that Number() turns into NaN, such as "tall".
NotANumber == 0 - 1

\* The height_cm fields of the scoring requests.
ScoreHeights ==
    {0, NotANumber, 100, 171, 172, 173, 177, 181, 182, 183, 186, 190, 191,
     192, 250}

\* The measurements fields of the scoring requests, as characters: those of
\* MeasInputs, "200-200-200", "50-50-50", "90-73-90", "94-77-94", "89-72-89",
\* "97-75-92", "88-60-88", "82", "82-60-88-99", "60-82-88" and a number.
ScoreMeas ==
    MeasInputs \cup
    { <<"2","0","0","-","2","0","0","-","2","0","0">>,
      <<"5","0","-","5","0","-","5","0">>,
      <<"9","0","-","7","3","-","9","0">>,
      <<"9","4","-","7","7","-","9","4">>,
      <<"8","9","-","7","2","-","8","9">>,
      <<"9","7","-","7","5","-","9","2">>,
      <<"8","8","-","6","0","-","8","8">>,
      <<"8","2">>,
      <<"8","2","-","6","0","-","8","8","-","9","9">>,
      <<"6","0","-","8","2","-","8","8">>,
      <<"number">> }

\* The photo lists of the scoring requests.
ScorePhotos == { <<"q1">>, <<"q1", "q2", "q3">> }

\* The photo lists of the requests that exercise the vector math: their
\* averages are (1, 0), (0, 1), (1/2, 1/2), (0, 0) and the one-component
\* vector (1).
VectorPhotos ==
    { <<"q1">>, <<"q2">>, <<"q1", "q2">>, <<"q1", "q3">>, <<"p1">> }

\* The photo lists of requests that are sent twice: one photo, and the same
\* two photos in either order.
PairPhotos == { <<"q1">>, <<"q1", "q2">>, <<"q2", "q1">> }

\* The Authorization headers requests carry, as scheme and token: none,
\* "Basic key", "Bearer wrong", "Bearer key"; "key" is the configured
\* EVALUATOR_API_KEY of a deployment that has one.
Headers(cfg) ==
    IF cfg.traffic = "plain"
    THEN { <<"", "">>, <<"Bearer ", "key">> }
    ELSE IF cfg.traffic \in {"pairs", "vectors"}
    THEN { <<"Bearer ", "key">> }
    ELSE { <<"", "">>, <<"Basic ", "key">>, <<"Bearer ", "wrong">>,
           <<"Bearer ", "key">> }

\* A faulty variant of Authorized: any bearer token is accepted.
AuthorizedAnyBearer(cfg, hdr) == cfg.evalKey /\ hdr[1] = "Bearer "

\* part_000:212-213  the test the handler answers 401 on, negated
Authorized(cfg, hdr) ==
    cfg.evalKey /\ hdr[1] = "Bearer " /\ hdr[2] = "key"

\* The body of a request that has photos only.
PlainBody(photos) ==
    [photos |-> photos, gender |-> <<>>, height_cm |-> 0, measurements |-> <<>>]

\* The request bodies the clients of the deployment send.
Bodies000(cfg) ==
    IF cfg.traffic = "profiles"
    THEN [photos : LongPhotoInputs \cup {<<>>, NotArray}, gender : Genders,
          height_cm : Heights, measurements : MeasInputs]
    ELSE IF cfg.traffic = "scores"
    THEN [photos : ScorePhotos, gender : ScoreGenders,
          height_cm : ScoreHeights, measurements : ScoreMeas]
    ELSE IF cfg.traffic = "vectors"
    THEN {PlainBody(photos) : photos \in VectorPhotos}
    ELSE IF cfg.traffic = "pairs"
    THEN [photos : PairPhotos, gender : {<<>>, <<"M","a","l","e">>},
          height_cm : {0, 186},
          measurements : {<<>>, <<"9","2","-","7","5","-","9","2">>}]
    ELSE {PlainBody(photos) : photos \in PhotoInputs}

---------------------------------------------------------------------------
(* The scoring of /evaluate, part_000:241-326.                             *)

\* part_000:241-245  PREFS
PREFS(GEN) ==
    IF GEN = "male"
    THEN [height |-> [min |-> 182, target |-> 186, max |-> 191],
          meas_bands |->
             [b |-> [min |-> 88, ideal |-> <<90, 94>>, max |-> 96],
              w |-> [min |-> 71, ideal |-> <<73, 77>>, max |-> 82],
              h |-> [min |-> 88, ideal |-> <<90, 94>>, max |-> 96]]]
    ELSE [height |-> [min |-> 172, target |-> 177, max |-> 182],
          meas_target |-> [b |-> 82, w |-> 60, h |-> 88],
          meas_tol |-> [b |-> 6, w |-> 4, h |-> 6]]

\* part_000:246  whether (gender || "female").toLowerCase throws: a truthy
\* value that is not a string has no toLowerCase method
GENThrows(gender) == Truthy(gender) /\ ~IsString(gender)

\* part_000:246  (gender || "female").toLowerCase().startsWith("m")
GEN(gender) ==
    LET g == toLowerCase(IF ~Truthy(gender) THEN <<"f","e","m","a","l","e">>
                         ELSE gender)
    IN  IF Len(g) > 0 /\ g[1] = "m" THEN "male" ELSE "female"

Digits == {"0", "1", "2", "3", "4", "5", "6", "7", "8", "9"}

DigitVal(c) ==
    CASE c = "0" -> 0 [] c = "1" -> 1 [] c = "2" -> 2 [] c = "3" -> 3
      [] c = "4" -> 4 [] c = "5" -> 5 [] c = "6" -> 6 [] c = "7" -> 7
      [] c = "8" -> 8 [] c = "9" -> 9

RECURSIVE DigitRuns(_, _, _)
\* part_000:48  mStr.match(/\d+(\.\d+)?/g) on strings without a decimal
\* point: the maximal runs of digits of s[i..], as numbers; cur is the run
\* being read, <<>> outside a run
DigitRuns(s, i, cur) ==
    IF i > Len(s) THEN cur
    ELSE IF s[i] \in Digits
         THEN DigitRuns(s, i + 1,
                        <<(IF cur = <<>> THEN 0 ELSE cur[1]) * 10 + DigitVal(s[i])>>)
         ELSE cur \o DigitRuns(s, i + 1, <<>>)

\* A faulty variant of parseMeas: two numbers give a record without hip.
parseMeasPartial(mStr) ==
    IF ~Truthy(mStr) \/ ~IsString(mStr) THEN <<>>
    ELSE LET nums == DigitRuns(mStr, 1, <<>>) IN
         IF Len(nums) < 2 THEN <<>>
         ELSE <<[b |-> nums[1], w |-> nums[2],
                 h |-> IF Len(nums) < 3 THEN 0 ELSE nums[3]]>>

\* part_000:46-51  <<>> stands for null
parseMeas(mStr) ==
    IF ~Truthy(mStr) \/ ~IsString(mStr) THEN <<>>
    ELSE LET nums == DigitRuns(mStr, 1, <<>>) IN
         IF Len(nums) < 3 THEN <<>>
         ELSE <<[b |-> nums[1], w |-> nums[2], h |-> nums[3]]>>

Abs(x) == IF x < 0 THEN 0 - x ELSE x

\* part_000:70  Math.exp(-Math.pow(d / (w / 4), 2)) in units of 1/10000,
\* for the whole-centimetre distances d from the target that lie inside a
\* range of width w
ExpBell(d, w) ==
    IF w = 10
    THEN CASE d = 0 -> 10000 [] d = 1 -> 8521 [] d = 2 -> 5273
           [] d = 3 -> 2369 [] d = 4 -> 773 [] OTHER -> 183
    ELSE CASE d = 0 -> 10000 [] d = 1 -> 8208 [] d = 2 -> 4538
           [] d = 3 -> 1690 [] d = 4 -> 424 [] OTHER -> 72

\* A faulty variant of heightScore: a height equal to the minimum is on the
\* ramp.
heightScoreOpen(P, h) ==
    IF h = 0 \/ h = NotANumber THEN 0
    ELSE IF h < P.min THEN 0
    ELSE IF h >= P.max THEN One
    ELSE LET s     == ((h - P.min) * One) \div (P.max - P.min)
             bonus == (ExpBell(Abs(h - P.target), P.max - P.min)
                          * (One \div 10000) * 15) \div 100
         IN  clamp(s + bonus, 0, One)

\* part_000:63-72  heightScoreFactory(P.height)(h)
heightScore(P, h) ==
    IF h = 0 \/ h = NotANumber THEN 0
    ELSE IF h <= P.min THEN 0
    ELSE IF h >= P.max THEN One
    ELSE LET s     == ((h - P.min) * One) \div (P.max - P.min)
             bonus == (ExpBell(Abs(h - P.target), P.max - P.min)
                          * (One \div 10000) * 15) \div 100
         IN  clamp(s + bonus, 0, One)

\* part_000:252-260
bandScore(v, band) ==
    IF v <= band.min \/ v >= band.max THEN 0
    ELSE IF v >= band.ideal[1] /\ v <= band.ideal[2] THEN One
    ELSE IF v < band.ideal[1]
         THEN ((v - band.min) * One) \div (band.ideal[1] - band.min)
    ELSE ((band.max - v) * One) \div (band.max - band.ideal[2])

\* A faulty variant of measScore: the weighted sums are divided by 3.5.
measScoreLow(gen, m) ==
    IF m = <<>> THEN 0
    ELSE IF gen = "male"
    THEN LET B  == PREFS(gen).meas_bands
             sB == bandScore(m[1].b, B.b)
             sW == bandScore(m[1].w, B.w)
             sH == bandScore(m[1].h, B.h)
         IN  clamp((10 * sB + 13 * sW + 10 * sH) \div 35, 0, One)
    ELSE LET T   == PREFS(gen).meas_target
             tol == PREFS(gen).meas_tol
             dxB == (Abs(m[1].b - T.b) * One) \div tol.b
             dxW == (Abs(m[1].w - T.w) * One) \div tol.w
             dxH == (Abs(m[1].h - T.h) * One) \div tol.h
         IN  clamp((10 * (One - dxB) + 12 * (One - dxW) + 10 * (One - dxH))
                      \div 35, 0, One)

\* part_000:262-273
measScore(gen, m) ==
    IF m = <<>> THEN 0
    ELSE IF gen = "male"
    THEN LET B  == PREFS(gen).meas_bands
             sB == bandScore(m[1].b, B.b)
             sW == bandScore(m[1].w, B.w)
             sH == bandScore(m[1].h, B.h)
         IN  clamp((10 * sB + 13 * sW + 10 * sH) \div 33, 0, One)
    ELSE LET T   == PREFS(gen).meas_target
             tol == PREFS(gen).meas_tol
             dxB == (Abs(m[1].b - T.b) * One) \div tol.b
             dxW == (Abs(m[1].w - T.w) * One) \div tol.w
             dxH == (Abs(m[1].h - T.h) * One) \div tol.h
         IN  clamp((10 * (One - dxB) + 12 * (One - dxW) + 10 * (One - dxH))
                      \div 32, 0, One)

\* part_000:312  clamp((nPhotos - 2) * 0.04, 0, 0.12)
photoBoost(nPhotos) ==
    clamp(((nPhotos - 2) * 4 * One) \div 100, 0, (12 * One) \div 100)

\* part_000:313-314  parseInt(sha256(photos.join("|")).slice(0, 6), 16) % 100
\* for the photo lists of the model
HashMod100(photos) ==
    CASE photos = <<"p1">> -> 1
      [] photos = <<"p2">> -> 74
      [] photos = <<"p1", "p1">> -> 84
      [] photos = <<"p1", "p2">> -> 83
      [] photos = <<"p2", "p1">> -> 96
      [] photos = <<"p2", "p2">> -> 62
      [] photos = <<"p1", "p1", "p1">> -> 10
      [] photos = <<"p1", "p1", "p2">> -> 61
      [] photos = <<"p1", "p2", "p1">> -> 56
      [] photos = <<"p1", "p2", "p2">> -> 0
      [] photos = <<"p2", "p1", "p1">> -> 97
      [] photos = <<"p2", "p1", "p2">> -> 58
      [] photos = <<"p2", "p2", "p1">> -> 88
      [] photos = <<"p2", "p2", "p2">> -> 90
      [] photos = <<"q1">> -> 4
      [] photos = <<"q2">> -> 27
      [] photos = <<"q1", "q3">> -> 14
      [] photos = <<"q3">> -> 45
      [] photos = <<"q1", "q2">> -> 13
      [] photos = <<"q2", "q1">> -> 58
      [] photos = <<"q1", "q2", "q3">> -> 54
      [] photos = <<"q1", "q1", "q1", "q1", "q1", "q3">> -> 88
      [] photos = <<"q1", "q2", "q3", "q1", "q2", "q3">> -> 3

\* A faulty variant of tinyNoise: the remainder divided by 1000.
tinyNoiseWide(photos) == HashMod100(photos) * (One \div 1000)

\* part_000:315  (n % 100) / 10000
tinyNoise(photos) == HashMod100(photos) * (One \div 10000)

\* part_000:317-324  the blend, clamped
Blend(meas, height, faceScore, photos) ==
    LET nPhotos == Len(photos) IN
    clamp((40 * meas + 25 * height + 30 * faceScore
             + 5 * (IF nPhotos # 0 THEN (6 * One) \div 10 ELSE 0)) \div 100
          + photoBoost(nPhotos) + tinyNoise(photos), 0, One)

\* part_000:246-273 and 317-324  the confidence of a request
Confidence(body, faceScore) ==
    LET gen == GEN(body.gender) IN
    Blend(measScore(gen, parseMeas(body.measurements)),
          heightScore(PREFS(gen).height, body.height_cm),
          faceScore, body.photos)

\* part_000:326
Decision(confidence) ==
    IF 100 * confidence >= 70 * One THEN "proceed"
    ELSE IF 100 * confidence >= 45 * One THEN "review"
    ELSE "reject"

\* A faulty variant of toFixed3: two decimals.
toFixed2(x) == ((x + One \div 200) \div (One \div 100)) * (One \div 100)

\* Number.prototype.toFixed(3) read back by Number: the nearest multiple of
\* 1/1000
toFixed3(x) == ((x + One \div 2000) \div (One \div 1000)) * (One \div 1000)

---------------------------------------------------------------------------
(* POST /evaluate, part_000:210-354.                                       *)

NoFace == [faceScore |-> 0, faceCluster |-> "", faceReason |-> ""]

\* part_000:328-334  the height phrase of the reason; "" when none is pushed
heightReason(height_cm, hs) ==
    IF height_cm = 0 THEN ""
    ELSE IF 100 * hs >= 75 * One THEN "height in editorial sweet spot"
    ELSE IF 100 * hs >= 45 * One THEN "height within range"
    ELSE "height below preferred range"

\* part_000:335-339  the measurement phrase of the reason; "" when none is
\* pushed
measReason(m, ms) ==
    IF m = <<>> THEN ""
    ELSE IF 100 * ms >= 75 * One THEN "measurements in ideal window"
    ELSE IF 100 * ms >= 45 * One THEN "measurements within acceptable band"
    ELSE "measurements outside preferred band"

\* hdr, body: the request; k, photoVecs: the locals of the photo loop;
\* embeds, failedAt: what an observer of the embedding calls sees, their
\* number and the places in photos of those that threw; face: the locals
\* faceScore, faceCluster, faceReason; scored, GEN, m, hs, ms: whether the
\* scoring code ran, and its locals GEN, m, heightScore(height_cm) and
\* measScore; hReason, mReason: the phrases of the reason; tinyNoise: the
\* local of that name; sims: the values the local s of the scan takes, in
\* cache order; the other fields are the response.
IdleEval ==
    [pc |-> "idle", hdr |-> <<"", "">>, body |-> PlainBody(<<>>), k |-> 0,
     photoVecs |-> <<>>,
     embeds |-> 0, failedAt |-> {}, atCheck |-> <<>>, atScan |-> <<>>,
     face |-> NeutralFace("face similarity neutral"),
     scored |-> FALSE, GEN |-> "", m |-> <<>>, hs |-> 0, ms |-> 0,
     hReason |-> "", mReason |-> "", tinyNoise |-> 0, sims |-> <<>>,
     status |-> 0, decision |-> "", confidence |-> 0,
     face_similarity |-> 0, face_cluster |-> "", details_photos |-> 0]

\* A faulty variant of Respond: a request none of whose photos embedded is
\* answered with the 500 of the outer catch.
RespondOrFail(r, face) ==
    IF r.embeds > 0 /\ Len(r.photoVecs) = 0
    THEN [r EXCEPT !.pc = "done", !.status = 500]
    ELSE [r EXCEPT !.pc = "done", !.status = 200, !.face = face,
                   !.confidence = Confidence(r.body, face.faceScore),
                   !.decision = Decision(Confidence(r.body, face.faceScore)),
                   !.face_similarity = toFixed3(face.faceScore),
                   !.face_cluster = face.faceCluster,
                   !.details_photos = Len(r.body.photos)]

\* part_000:311-349  the 200 response from the face result
Respond(r, face) ==
    LET confidence == Confidence(r.body, face.faceScore)
        gen == GEN(r.body.gender)
        m   == parseMeas(r.body.measurements)
        hs  == heightScore(PREFS(gen).height, r.body.height_cm)
        ms  == measScore(gen, m)
    IN
    [r EXCEPT !.pc = "done", !.status = 200, !.face = face,
              !.scored = TRUE, !.GEN = gen, !.m = m, !.hs = hs, !.ms = ms,
              !.hReason = heightReason(r.body.height_cm, hs),
              !.mReason = measReason(m, ms),
              !.tinyNoise = tinyNoise(r.body.photos),
              !.confidence = confidence,
              !.decision = Decision(confidence),
              !.face_similarity = toFixed3(face.faceScore),
              !.face_cluster = face.faceCluster,
              !.details_photos = Len(r.body.photos)]

\* part_000:224-238  the LIGHT_MODE response
LightRespond(r) ==
    [r EXCEPT !.pc = "done", !.status = 200, !.face = NeutralFace("mock"),
              !.confidence = (75 * One) \div 100,
              !.decision = "review",
              !.face_similarity = One \div 2,
              !.face_cluster = "none",
              !.details_photos = Len(r.body.photos)]

\* part_000:210-282: the handler up to its first embedOne call.  atCheck is
\* the group set the test of clusters.length reads.
EvaluateStart(e) ==
    /\ ev[e].pc = "idle"
    /\ \E hdr \in Headers(config), body \in Bodies000(config) :
         LET q == [ev[e] EXCEPT !.hdr = hdr, !.body = body]
             r == [q EXCEPT !.atCheck = clusters]
         IN
         ev' = [ev EXCEPT ![e] =
            IF ~Authorized(config, hdr)
               THEN [q EXCEPT !.pc = "done", !.status = 401]
            ELSE IF ~isArray(body.photos) \/ Len(body.photos) = 0
               THEN [q EXCEPT !.pc = "done", !.status = 400]
            ELSE IF config.light
               THEN LightRespond(q)
            ELSE IF GENThrows(body.gender)
               THEN [q EXCEPT !.pc = "done", !.status = 500]
            ELSE IF Len(clusters) = 0
               THEN Respond(r, NeutralFace("no reference faces loaded"))
            ELSE [r EXCEPT !.pc = "embed", !.k = 1, !.embeds = 1]]
    /\ UNCHANGED <<clusters, config, lc, provVars>>

\* part_000:280-309: embedOne returns or throws for photo k; after the last
\* of the first PhotoCap photos the clusters are scanned and the response is
\* sent.  atScan is the group set the scan reads.
PhotoEmbedDone(e) ==
    /\ ev[e].pc = "embed"
    /\ \E ok \in EmbedOutcomes(ev[e].body.photos[ev[e].k]) :
         LET r  == ev[e]
             r1 == IF ok
                   THEN [r EXCEPT !.photoVecs =
                            Append(r.photoVecs, Vec(r.body.photos[r.k]))]
                   ELSE [r EXCEPT !.failedAt = @ \cup {r.k}]
         IN  ev' = [ev EXCEPT ![e] =
                IF r.k < Min(PhotoCap, Len(r.body.photos))
                THEN [r1 EXCEPT !.k = r.k + 1, !.embeds = r.embeds + 1]
                ELSE Respond([r1 EXCEPT !.atScan = clusters,
                                        !.sims = ScanSims(r1.photoVecs,
                                                          clusters)],
                             FaceResult(r1.photoVecs, clusters))]
    /\ UNCHANGED <<clusters, config, lc, provVars>>

---------------------------------------------------------------------------
(* The hosted embedding provider, part_001:52-153.                         *)

\* part_001:56-60  the models of HF_MODELS
NModels == 3
\* part_001:63-67  the routes HF_ROUTES gives for a model
NRoutes == 3
\* part_001:104
maxAttempts == 3
\* part_001:124  setTimeout(r, 400 * attempt)
BackoffMs == 400

\* part_001:123  the statuses that are tried again
RetryStatuses == {500, 502, 503, 504}

\* The statuses the responses that are not ok carry.
Statuses == {401, 500, 501, 503}

\* part_001:139-141  the endpoints in the order of the two loops
Endpoint(m, rt) == (m - 1) * NRoutes + rt
NEndpoints == NModels * NRoutes

ProviderUrls == {"u1", "u2"}

\* part_001:52  the URLs the memo can hold: those and the photo URLs
MemoUrls == ProviderUrls \cup {"q1", "q2", "q3"}

\* The activations of getEmbedding: one, and a second one that runs only
\* where two callers are modelled.
Gets == {"g1", "g2"}

\* The JSON bodies of the ok responses of model m: one vector, a matrix of
\* token rows, a value of another shape, and null.
Bodies(m) ==
    { [shape |-> "vector", rows |-> <<<<m * Scale, 0>>>>],
      [shape |-> "matrix", rows |-> <<<<m * Scale, Scale>>, <<m * Scale, 0 - Scale>>>>],
      [shape |-> "object", rows |-> <<>>],
      [shape |-> "null",   rows |-> <<>>] }

NoBody == [shape |-> "none", rows |-> <<>>]

\* What a request to a backend of model m can come back with.
Responses(m) ==
    [kind : {"ok"}, status : {200}, body : Bodies(m)]
    \cup [kind : {"unparseable"}, status : {200}, body : {NoBody}]
    \cup [kind : {"status"}, status : Statuses, body : {NoBody}]
    \cup [kind : {"network"}, status : {0}, body : {NoBody}]

\* The responses of the backends of the deployment: any of the above, or,
\* of backends that are up, the vector of the model or a refusal.
BackendResponses(cfg, m) ==
    IF cfg.backend = "up"
    THEN {resp \in Responses(m) :
             \/ resp.kind = "ok" /\ resp.body.shape = "vector"
             \/ resp.kind = "status" /\ resp.status = 401}
    ELSE Responses(m)

NoResp == [kind |-> "none", status |-> 0, body |-> NoBody]

\* part_001:90-96  the mean over the token rows, column by column
ColumnMean(rows) ==
    [j \in 1..Len(rows[1]) |->
        SumTo([i \in 1..Len(rows) |-> rows[i][j]], Len(rows)) \div Len(rows)]

\* part_001:88-100  Float32Array.from gives the vector itself, and the empty
\* vector for a value that is neither iterable nor array-like
poolToVector(jsonOut) ==
    IF jsonOut.shape = "matrix" THEN ColumnMean(jsonOut.rows)
    ELSE IF jsonOut.shape = "vector" THEN jsonOut.rows[1]
    ELSE <<>>

\* part_001:107-127 and 88-99: whether the response makes tryEmbed throw
\* (a rejected fetch, resp.json() on an unparseable body,
\* Float32Array.from(null), a status that is not ok)
Throws(resp) ==
    \/ resp.kind \in {"unparseable", "status", "network"}
    \/ resp.kind = "ok" /\ resp.body.shape = "null"

\* A faulty variant of Retries: every status that is not ok is tried again.
RetriesAnyStatus(resp, attempt) ==
    /\ resp.kind = "status"
    /\ attempt < 3

\* part_001:123  the response is followed by a backoff and another attempt
Retries(resp, attempt) ==
    /\ resp.kind = "status"
    /\ resp.status \in RetryStatuses
    /\ attempt < maxAttempts

IdleGet ==
    [pc |-> "idle", url |-> "", m |-> 0, rt |-> 0, attempt |-> 0,
     resp |-> NoResp, delay |-> 0, lastErr |-> <<>>, result |-> <<>>,
     \* what an observer of the network sees of this call: the requests
     \* sent, the endpoint of the latest one, how many in a row went to it,
     \* and the endpoint whose response was taken
     nreq |-> 0, reqEp |-> 0, reqTry |-> 0, okEp |-> 0]

\* An activation that is never started.
OffGet == [IdleGet EXCEPT !.pc = "off"]

\* part_001:107  fetch(route, ...): a request goes to the endpoint (m, rt)
Send(r, m, rt, attempt) ==
    [r EXCEPT !.pc = "req", !.m = m, !.rt = rt, !.attempt = attempt,
              !.delay = 0,
              !.nreq = r.nreq + 1,
              !.reqTry = IF r.reqEp = Endpoint(m, rt) THEN r.reqTry + 1 ELSE 1,
              !.reqEp = Endpoint(m, rt)]

\* A faulty variant of NextEndpoint: the loops are nested the other way
\* round, the models inside the routes.
NextEndpointModelsInside(r, e) ==
    LET r1 == [r EXCEPT !.lastErr = <<e>>] IN
    IF r.m < NModels THEN Send(r1, r.m + 1, r.rt, 1)
    ELSE IF r.rt < NRoutes THEN Send(r1, 1, r.rt + 1, 1)
    ELSE [r1 EXCEPT !.pc = "failed"]

\* A faulty variant of NextEndpoint: lastErr keeps the first failure.
NextEndpointFirstErr(r, e) ==
    LET r1 == [r EXCEPT !.lastErr = IF r.lastErr = <<>> THEN <<e>> ELSE r.lastErr] IN
    IF r.rt < NRoutes THEN Send(r1, r.m, r.rt + 1, 1)
    ELSE IF r.m < NModels THEN Send(r1, r.m + 1, 1, 1)
    ELSE [r1 EXCEPT !.pc = "failed"]

\* part_001:139-152  after tryEmbed threw e at (m, rt): the next route, the
\* next model, or throw lastErr
NextEndpoint(r, e) ==
    LET r1 == [r EXCEPT !.lastErr = <<e>>] IN
    IF r.rt < NRoutes THEN Send(r1, r.m, r.rt + 1, 1)
    ELSE IF r.m < NModels THEN Send(r1, r.m + 1, 1, 1)
    ELSE [r1 EXCEPT !.pc = "failed"]

\* part_001:132-136: a memo hit returns at once; without HF_KEY the call
\* throws; otherwise the image is fetched.
GetEmbedding(g) ==
    /\ ge[g].pc = "idle"
    /\ \E url \in ProviderUrls :
         LET r == [IdleGet EXCEPT !.url = url] IN
         ge' = [ge EXCEPT ![g] =
            IF embedCache[url] # <<>>
               THEN [r EXCEPT !.pc = "done", !.result = embedCache[url]]
            ELSE IF ~config.hfKey
               THEN [r EXCEPT !.pc = "failed",
                              !.lastErr = <<"HUGGINGFACE_API_KEY missing">>]
            ELSE [r EXCEPT !.pc = "image"]]
    /\ UNCHANGED <<cacheVars, embedCache, te>>

\* part_001:136-143 and 80-83: fetchImageBuffer returns or throws; with the
\* bytes the first request goes to the first route of the first model.
ImageFetched(g) ==
    /\ ge[g].pc = "image"
    /\ \E ok \in BOOLEAN :
         ge' = [ge EXCEPT ![g] =
            IF ok THEN Send(ge[g], 1, 1, 1)
            ELSE [ge[g] EXCEPT !.pc = "failed",
                               !.lastErr = <<"image_fetch_failed">>]]
    /\ UNCHANGED <<cacheVars, embedCache, te>>

\* part_001:107-129 and 143-152: the response to the request in flight.
Response(g) ==
    /\ ge[g].pc = "req"
    /\ \E resp \in BackendResponses(config, ge[g].m) :
         LET r   == [ge[g] EXCEPT !.resp = resp]
             vec == poolToVector(resp.body)
             e   == <<Endpoint(r.m, r.rt), resp.kind, resp.status>>
         IN  IF ~Throws(resp)
             THEN /\ ge' = [ge EXCEPT ![g] =
                        [r EXCEPT !.pc = "done", !.result = <<vec>>,
                                  !.okEp = Endpoint(r.m, r.rt)]]
                  /\ embedCache' = [embedCache EXCEPT ![r.url] = <<vec>>]
             ELSE IF Retries(resp, r.attempt)
             THEN /\ ge' = [ge EXCEPT ![g] =
                        [r EXCEPT !.pc = "sleep",
                                  !.delay = BackoffMs * r.attempt]]
                  /\ UNCHANGED embedCache
             ELSE /\ ge' = [ge EXCEPT ![g] = NextEndpoint(r, e)]
                  /\ UNCHANGED embedCache
    /\ UNCHANGED <<cacheVars, te>>

\* part_001:124-125 and 106-107: the timer fires and the next attempt is sent.
BackoffDone(g) ==
    /\ ge[g].pc = "sleep"
    /\ ge' = [ge EXCEPT ![g] = Send(ge[g], ge[g].m, ge[g].rt, ge[g].attempt + 1)]
    /\ UNCHANGED <<cacheVars, embedCache, te>>

\* The caller has the vector or the error; the activation is over.
Return(g) ==
    /\ ge[g].pc \in {"done", "failed"}
    /\ ge' = [ge EXCEPT ![g] = IdleGet]
    /\ UNCHANGED <<cacheVars, embedCache, te>>

---------------------------------------------------------------------------
(* POST /evaluate of the server that embeds through the hosted provider,   *)
(* part_001:247-398, and the cache it reads, part_001:193-213.             *)

\* part_001:200-208  a group keeps the vectors of its images
Group001(fname, urls, vecs) ==
    [label |-> fname, gender |-> inferGenderFromFolder(fname),
     urls |-> urls, vecs |-> vecs]

\* Caches a completed build publishes over a storage whose images embed to
\* two-component vectors.
EvalCaches001 ==
    { <<>>,
      <<Group001("Reference Female A", <<"r1", "r2">>,
                 <<<<Scale, 0>>, <<0, Scale>>>>)>>,
      <<Group001("Reference Female A", <<"r1">>, <<<<0, Scale>>>>),
        Group001("reference male B", <<"r3">>, <<<<Scale, 0>>>>)>>,
      <<Group001("Reference Empty", <<"r1", "r3">>,
                 <<<<Scale, 0>>, <<0 - Scale, 0>>>>)>> }

\* part_001:297-299
leanBonus(m, B) ==
    IF m.w <= B.w.ideal[2] /\ m.b <= B.b.ideal[2] /\ m.h <= B.h.ideal[2]
    THEN (3 * One) \div 100 ELSE 0

\* part_001:290-311
measScore001(gen, m) ==
    IF m = <<>> THEN 0
    ELSE IF gen = "male"
    THEN LET B  == PREFS(gen).meas_bands
             sB == bandScore(m[1].b, B.b)
             sW == bandScore(m[1].w, B.w)
             sH == bandScore(m[1].h, B.h)
         IN  clamp(clamp((10 * sB + 13 * sW + 10 * sH) \div 33, 0, One)
                      + leanBonus(m[1], B), 0, One)
    ELSE LET T   == PREFS(gen).meas_target
             tol == PREFS(gen).meas_tol
             sB  == clamp(One - (Abs(m[1].b - T.b) * One) \div tol.b, 0, One)
             sW  == clamp(One - (Abs(m[1].w - T.w) * One) \div tol.w, 0, One)
             sH  == clamp(One - (Abs(m[1].h - T.h) * One) \div tol.h, 0, One)
         IN  clamp((10 * sB + 12 * sW + 10 * sH) \div 32, 0, One)

\* part_001:315-317  the groups the scan goes over
Pool001(cs, gen) ==
    IF \E i \in 1..Len(cs) : cs[i].gender # "unknown"
    THEN SelectSeq(cs, LAMBDA c : c.gender = gen \/ c.gender = "unknown")
    ELSE cs

RECURSIVE Refs001(_, _)
\* part_001:327-328  the vectors of pool[1..n] in the order of the two inner
\* loops, each with the label of its group
Refs001(pool, n) ==
    IF n = 0 THEN <<>>
    ELSE Refs001(pool, n - 1)
            \o [j \in 1..Len(pool[n].vecs) |->
                   [label |-> pool[n].label, rv |-> pool[n].vecs[j]]]

RECURSIVE ScanRefs001(_, _, _, _)
\* part_001:328-331  the inner loops for one photo vector, from best
ScanRefs001(pv, refs, n, best) ==
    IF n = 0 THEN best
    ELSE LET b == ScanRefs001(pv, refs, n - 1, best)
             s == cosine(pv, refs[n].rv)
         IN  IF s > b.maxSim
             THEN [maxSim |-> s, bestLabel |-> refs[n].label]
             ELSE b

RECURSIVE Scan001(_, _, _)
\* part_001:325-333  the scan over photoVecs[1..n]
Scan001(photoVecs, refs, n) ==
    IF n = 0 THEN [maxSim |-> 0 - One, bestLabel |-> "none"]
    ELSE ScanRefs001(photoVecs[n], refs, Len(refs),
                     Scan001(photoVecs, refs, n - 1))

\* part_001:325-341  the face result from the embedded photos and the pool
FaceResult001(photoVecs, pool) ==
    LET best == Scan001(photoVecs, Refs001(pool, Len(pool)), Len(photoVecs))
        faceScore == clamp((best.maxSim + One) \div 2, 0, One)
    IN  IF best.maxSim >= 0 - One
        THEN [faceScore |-> faceScore, faceCluster |-> best.bestLabel,
              faceReason |->
                 IF 100 * faceScore >= 70 * One
                    THEN "face matches reference look"
                 ELSE IF 100 * faceScore >= 55 * One
                    THEN "some similarity to reference look"
                 ELSE "low similarity to reference look"]
        ELSE NeutralFace("face similarity neutral")

\* part_001:246-311 and 358-365  the confidence of a request
Confidence001(body, faceScore) ==
    LET gen == GEN(body.gender) IN
    Blend(measScore001(gen, parseMeas(body.measurements)),
          heightScore(PREFS(gen).height, body.height_cm),
          faceScore, body.photos)

\* part_001:351-393  the 200 response from the face result
Respond001(r, face) ==
    LET confidence == Confidence001(r.body, face.faceScore)
        gen == GEN(r.body.gender)
        m   == parseMeas(r.body.measurements)
        hs  == heightScore(PREFS(gen).height, r.body.height_cm)
        ms  == measScore001(gen, m)
    IN
    [r EXCEPT !.pc = "done", !.status = 200, !.face = face,
              !.scored = TRUE, !.GEN = gen, !.m = m, !.hs = hs, !.ms = ms,
              !.hReason = heightReason(r.body.height_cm, hs),
              !.mReason = measReason(m, ms),
              !.tinyNoise = tinyNoise(r.body.photos),
              !.confidence = confidence,
              !.decision = Decision(confidence),
              !.face_similarity = toFixed3(face.faceScore),
              !.face_cluster = face.faceCluster,
              !.details_photos = Len(r.body.photos)]

\* part_001:132-153 seen from the caller: a URL in the memo gives its
\* vector; any other call gives the vector of the image or throws
GetOutcomes(u) == IF embedCache[u] # <<>> THEN {TRUE} ELSE EmbedOutcomes(u)

\* part_001:247-322: the handler up to its first getEmbedding call.
EvaluateStart001(e) ==
    /\ ev[e].pc = "idle"
    /\ \E hdr \in Headers(config), body \in Bodies000(config) :
         LET q == [ev[e] EXCEPT !.hdr = hdr, !.body = body]
             r == [q EXCEPT !.atCheck = clusters]
         IN
         ev' = [ev EXCEPT ![e] =
            IF ~Authorized(config, hdr)
               THEN [q EXCEPT !.pc = "done", !.status = 401]
            ELSE IF ~isArray(body.photos) \/ Len(body.photos) = 0
               THEN [q EXCEPT !.pc = "done", !.status = 400]
            ELSE IF GENThrows(body.gender)
               THEN [q EXCEPT !.pc = "done", !.status = 500]
            ELSE IF Len(clusters) = 0
               THEN Respond001(r, NeutralFace("no reference faces loaded"))
            ELSE [r EXCEPT !.pc = "embed001", !.k = 1, !.embeds = 1]]
    /\ UNCHANGED <<clusters, config, lc, provVars>>

\* part_001:320-349: getEmbedding returns or throws for photo k and keeps
\* the vector it got in the memo; after the last photo the pool is scanned
\* and the response is sent.  The pool is the filtered copy made before the
\* loop, or clusters itself when no group has a known gender; atScan is the
\* pool the scan reads.
PhotoEmbedDone001(e) ==
    /\ ev[e].pc = "embed001"
    /\ \E ok \in GetOutcomes(ev[e].body.photos[ev[e].k]) :
         LET r    == ev[e]
             url  == r.body.photos[r.k]
             vec  == IF embedCache[url] # <<>> THEN embedCache[url][1] ELSE Vec(url)
             r1   == IF ok THEN [r EXCEPT !.photoVecs = Append(r.photoVecs, vec)]
                     ELSE [r EXCEPT !.failedAt = @ \cup {r.k}]
             pool == IF \E i \in 1..Len(r.atCheck) : r.atCheck[i].gender # "unknown"
                     THEN Pool001(r.atCheck, GEN(r.body.gender))
                     ELSE clusters
         IN  /\ ev' = [ev EXCEPT ![e] =
                   IF r.k < Len(r.body.photos)
                   THEN [r1 EXCEPT !.k = r.k + 1, !.embeds = r.embeds + 1]
                   ELSE Respond001([r1 EXCEPT !.atScan = pool],
                                   FaceResult001(r1.photoVecs, pool))]
             /\ embedCache' = IF ok THEN [embedCache EXCEPT ![url] = <<vec>>]
                              ELSE embedCache
    /\ UNCHANGED <<clusters, config, lc, ge, te>>

---------------------------------------------------------------------------
(* POST /evaluate of the rule-only server, part_002:15-141, and of the     *)
(* demo server, server.mjs:15-54.  Both send a HEAD request for the first  *)
(* photo and ignore its outcome.  The requests of the model carry no age.  *)

\* part_002:38-49  PREFS
PREFS002(gen) ==
    IF gen = "male"
    THEN [height_cm |-> [min |-> 182, target |-> 186, max |-> 192],
          meas_target |-> [b |-> 96, w |-> 76, h |-> 94],
          meas_tolerance |-> [b |-> 8, w |-> 6, h |-> 8]]
    ELSE [height_cm |-> [min |-> 172, target |-> 177, max |-> 182],
          meas_target |-> [b |-> 82, w |-> 60, h |-> 88],
          meas_tolerance |-> [b |-> 6, w |-> 4, h |-> 6]]

\* part_002:78-91
measScore002(gen, m) ==
    IF m = <<>> THEN 0
    ELSE LET T   == PREFS002(gen).meas_target
             tol == PREFS002(gen).meas_tolerance
             sB  == clamp(One - (Abs(m[1].b - T.b) * One) \div tol.b, 0, One)
             sW  == clamp(One - (Abs(m[1].w - T.w) * One) \div tol.w, 0, One)
             sH  == clamp(One - (Abs(m[1].h - T.h) * One) \div tol.h, 0, One)
         IN  clamp((10 * sB + 12 * sW + 10 * sH) \div 32, 0, One)

\* part_002:50-109  the confidence of a request
Confidence002(body) ==
    LET gen == GEN(body.gender)
        photoCount == Len(body.photos)
    IN  clamp((55 * measScore002(gen, parseMeas(body.measurements))
                 + 35 * heightScore(PREFS002(gen).height_cm, body.height_cm)
                 + 10 * (IF photoCount > 0 THEN (6 * One) \div 10 ELSE 0)) \div 100
              + photoBoost(photoCount) + tinyNoise(body.photos), 0, One)

\* server.mjs:36-37  parseInt(sha256(photos.join("|")).slice(0, 8), 16) % 10000
\* for the photo lists of the model
HashMod10000(photos) ==
    CASE photos = <<"q1">> -> 417
      [] photos = <<"q3">> -> 7145
      [] photos = <<"q1", "q2">> -> 5351
      [] photos = <<"q1", "q2", "q3">> -> 319
      [] photos = <<"q1", "q1", "q1", "q1", "q1", "q3">> -> 724
      [] photos = <<"q1", "q2", "q3", "q1", "q2", "q3">> -> 806

\* server.mjs:36-42  the confidence of a request without age
ConfidenceDemo(body) ==
    LET c == HashMod10000(body.photos) * (One \div 10000) IN
    IF body.height_cm # 0 /\ body.height_cm >= 175
    THEN Max(c, (35 * One) \div 100)
    ELSE c

\* server.mjs:45
DecisionDemo(confidence) ==
    IF 100 * confidence >= 65 * One THEN "proceed"
    ELSE IF 100 * confidence >= 35 * One THEN "review"
    ELSE "reject"

\* part_002:15-32 and server.mjs:15-31: the handler up to its HEAD request.
EvaluateStartHead(e) ==
    /\ ev[e].pc = "idle"
    /\ \E hdr \in Headers(config), body \in Bodies000(config) :
         ev' = [ev EXCEPT ![e] =
            IF ~Authorized(config, hdr)
               THEN [ev[e] EXCEPT !.hdr = hdr, !.body = body,
                                  !.pc = "done", !.status = 401]
            ELSE IF ~isArray(body.photos) \/ Len(body.photos) = 0
               THEN [ev[e] EXCEPT !.hdr = hdr, !.body = body,
                                  !.pc = "done", !.status = 400]
            ELSE [ev[e] EXCEPT !.hdr = hdr, !.pc = "head", !.body = body]]
    /\ UNCHANGED <<clusters, config, lc, provVars>>

\* part_002:33-137 and server.mjs:32-49: the HEAD request returned or threw;
\* the response carries decision, confidence, reason and details.
HeadDone(e) ==
    /\ ev[e].pc = "head"
    /\ LET r == ev[e]
           confidence == IF config.server = "part_002"
                         THEN Confidence002(r.body) ELSE ConfidenceDemo(r.body)
       IN  ev' = [ev EXCEPT ![e] =
              [r EXCEPT !.pc = "done", !.status = 200,
                        !.confidence = confidence,
                        !.decision = IF config.server = "part_002"
                                     THEN Decision(confidence)
                                     ELSE DecisionDemo(confidence),
                        !.details_photos = Len(r.body.photos)]]
    /\ UNCHANGED <<clusters, config, lc, provVars>>

---------------------------------------------------------------------------
Init ==
    /\ clusters = <<>>
    /\ config \in [creds : BOOLEAN, refJson : {"unset", "invalid", "list"},
                    light : BOOLEAN, evalKey : BOOLEAN, hfKey : {TRUE},
                    traffic : {"plain"}, server : {"part_000"},
                    backend : {"any"},
                          folders : {ExplicitFolders},
                          pool : {MAX_EMBEDS_CONCURRENCY}]
    /\ lc = [b \in Builds |-> IdleBuild]
    /\ ev = [e \in Evals |-> IdleEval]
    /\ embedCache = [u \in MemoUrls |-> <<>>]
    /\ ge = [g \in Gets |-> IF g = "g1" THEN IdleGet ELSE OffGet]
    /\ te = [t \in Tests |-> IdleTest]

Next ==
    \/ \E b \in Builds : ReloadRefs(b)
    \/ \E b \in Builds : DiscoverDone(b)
    \/ \E b \in Builds : ListDone(b)
    \/ \E b \in Builds : EmbedDone(b)
    \/ \E e \in Evals : EvaluateStart(e)
    \/ \E e \in Evals : PhotoEmbedDone(e)

vars == <<clusters, config, lc, ev, embedCache, ge, te>>

Spec == Init /\ [][Next]_vars

(* The provider on its own: one process, HF_KEY set or not.                *)
InitProvider ==
    /\ clusters = <<>>
    /\ config \in [creds : {TRUE}, refJson : {"unset"}, light : {FALSE},
                    evalKey : {TRUE}, hfKey : BOOLEAN, traffic : {"plain"},
                    server : {"part_001"}, backend : {"any"},
                          folders : {ExplicitFolders},
                          pool : {MAX_EMBEDS_CONCURRENCY}]
    /\ lc = [b \in Builds |-> IdleBuild]
    /\ ev = [e \in Evals |-> IdleEval]
    /\ embedCache = [u \in MemoUrls |-> <<>>]
    /\ ge = [g \in Gets |-> IF g = "g1" THEN IdleGet ELSE OffGet]
    /\ te = [t \in Tests |-> IdleTest]

NextProvider ==
    \/ \E g \in Gets : GetEmbedding(g)
    \/ \E g \in Gets : ImageFetched(g)
    \/ \E g \in Gets : Response(g)
    \/ \E g \in Gets : BackoffDone(g)
    \/ \E g \in Gets : Return(g)

SpecProvider == InitProvider /\ [][NextProvider]_vars

(* Two callers of getEmbedding at a time, HF_KEY set, the backends up.     *)
InitMemo ==
    /\ clusters = <<>>
    /\ config \in [creds : {TRUE}, refJson : {"unset"}, light : {FALSE},
                    evalKey : {TRUE}, hfKey : {TRUE}, traffic : {"plain"},
                    server : {"part_001"}, backend : {"up"},
                          folders : {ExplicitFolders},
                          pool : {MAX_EMBEDS_CONCURRENCY}]
    /\ lc = [b \in Builds |-> IdleBuild]
    /\ ev = [e \in Evals |-> IdleEval]
    /\ embedCache = [u \in MemoUrls |-> <<>>]
    /\ ge = [g \in Gets |-> IdleGet]
    /\ te = [t \in Tests |-> IdleTest]

NextMemo ==
    \/ \E g \in Gets : GetEmbedding(g)
    \/ \E g \in Gets : ImageFetched(g)
    \/ \E g \in Gets : Response(g)
    \/ \E g \in Gets : Return(g)

SpecMemo == InitMemo /\ [][NextMemo]_vars

(* The provider with the scheduling Node gives it: a fetch settles (the     *)
(* client's own timeouts reject a request that hangs) and a timer fires.   *)
FairProvider ==
    /\ SpecProvider
    /\ \A g \in Gets : /\ WF_vars(ImageFetched(g))
                       /\ WF_vars(Response(g))
                       /\ WF_vars(BackoffDone(g))

(* /evaluate on its own over a cache that a build has published and that   *)
(* no build replaces, with requests that carry a profile.                  *)

\* Caches a completed build publishes over a storage whose images embed to
\* two-component vectors: the running sum and the count of each group.
EvalCaches ==
    { <<>>,
      <<MakeGroup("Reference Female A", <<<<Scale, 0>>>>, 1)>>,
      <<MakeGroup("Reference Female A", <<<<Scale, Scale>>>>, 2),
        MakeGroup("reference male B", <<<<0 - Scale, 0>>>>, 1)>>,
      <<MakeGroup("Reference Female A", <<<<Scale, 0>>>>, 1),
        MakeGroup("reference male B", <<<<2 * Scale, 0>>>>, 2)>>,
      <<MakeGroup("Reference Female A", <<<<0, Scale>>>>, 1),
        MakeGroup("reference male B", <<<<Scale, 0>>>>, 1)>>,
      <<MakeGroup("Reference Female A", <<<<0, 0>>>>, 2)>> }

\* The server that runs: part_000 with or without LIGHT_MODE, part_001, the
\* rule-only server of part_002 or the demo server; the last two keep no
\* cache.
InitEval ==
    /\ \/ /\ clusters \in EvalCaches
          /\ config \in [creds : {TRUE}, refJson : {"unset"}, light : BOOLEAN,
                          evalKey : BOOLEAN, hfKey : {TRUE},
                          traffic : {"profiles"}, server : {"part_000"},
                          backend : {"any"},
                          folders : {ExplicitFolders},
                          pool : {MAX_EMBEDS_CONCURRENCY}]
       \/ /\ clusters \in EvalCaches001
          /\ config \in [creds : {TRUE}, refJson : {"unset"}, light : {FALSE},
                          evalKey : BOOLEAN, hfKey : {TRUE},
                          traffic : {"profiles"}, server : {"part_001"},
                          backend : {"any"},
                          folders : {ExplicitFolders},
                          pool : {MAX_EMBEDS_CONCURRENCY}]
       \/ /\ clusters = <<>>
          /\ config \in [creds : {TRUE}, refJson : {"unset"}, light : {FALSE},
                          evalKey : {TRUE}, hfKey : {TRUE},
                          traffic : {"profiles"},
                          server : {"part_002", "server.mjs"}, backend : {"any"},
                          folders : {ExplicitFolders},
                          pool : {MAX_EMBEDS_CONCURRENCY}]
    /\ lc = [b \in Builds |-> IdleBuild]
    /\ ev = [e \in Evals |-> IdleEval]
    /\ embedCache = [u \in MemoUrls |-> <<>>]
    /\ ge = [g \in Gets |-> IF g = "g1" THEN IdleGet ELSE OffGet]
    /\ te = [t \in Tests |-> IdleTest]

NextEval ==
    \/ \E e \in Evals : config.server = "part_000" /\ EvaluateStart(e)
    \/ \E e \in Evals : config.server = "part_000" /\ PhotoEmbedDone(e)
    \/ \E e \in Evals : config.server = "part_001" /\ EvaluateStart001(e)
    \/ \E e \in Evals : config.server = "part_001" /\ PhotoEmbedDone001(e)
    \/ \E e \in Evals : config.server \in {"part_002", "server.mjs"}
                            /\ EvaluateStartHead(e)
    \/ \E e \in Evals : config.server \in {"part_002", "server.mjs"}
                            /\ HeadDone(e)

SpecEval == InitEval /\ [][NextEval]_vars

(* The admin endpoints next to /evaluate: part_000 with credentials and an *)
(* explicit folder list, with or without LIGHT_MODE.                       *)
InitAdmin ==
    /\ clusters = <<>>
    /\ config \in [creds : {TRUE}, refJson : {"list"}, light : BOOLEAN,
                    evalKey : {TRUE}, hfKey : {TRUE}, traffic : {"plain"},
                    server : {"part_000"}, backend : {"any"},
                          folders : {ExplicitFolders},
                          pool : {MAX_EMBEDS_CONCURRENCY}]
    /\ lc = [b \in Builds |-> IdleBuild]
    /\ ev = [e \in Evals |-> IdleEval]
    /\ embedCache = [u \in MemoUrls |-> <<>>]
    /\ ge = [g \in Gets |-> IF g = "g1" THEN IdleGet ELSE OffGet]
    /\ te = [t \in Tests |-> IdleTest]

NextAdmin ==
    \/ \E b \in Builds : ReloadRefs(b)
    \/ \E b \in Builds : ListDone(b)
    \/ \E b \in Builds : EmbedDone(b)
    \/ \E e \in Evals : EvaluateStart(e)
    \/ \E e \in Evals : PhotoEmbedDone(e)
    \/ \E t \in Tests : TestEmbed(t)
    \/ \E t \in Tests : TestEmbedDone(t)

SpecAdmin == InitAdmin /\ [][NextAdmin]_vars

(* The reloads on their own: part_000 with credentials, the folders found  *)
(* by discovery or given by an explicit list.                              *)
InitReload ==
    /\ clusters = <<>>
    /\ config \in [creds : {TRUE}, refJson : {"unset", "list"}, light : {FALSE},
                    evalKey : {TRUE}, hfKey : {TRUE}, traffic : {"plain"},
                    server : {"part_000"}, backend : {"any"},
                          folders : {ExplicitFolders},
                          pool : {MAX_EMBEDS_CONCURRENCY}]
    /\ lc = [b \in Builds |-> IdleBuild]
    /\ ev = [e \in Evals |-> IdleEval]
    /\ embedCache = [u \in MemoUrls |-> <<>>]
    /\ ge = [g \in Gets |-> IF g = "g1" THEN IdleGet ELSE OffGet]
    /\ te = [t \in Tests |-> IdleTest]

NextReload ==
    \/ \E b \in Builds : ReloadRefs(b)
    \/ \E b \in Builds : DiscoverDone(b)
    \/ \E b \in Builds : ListDone(b)
    \/ \E b \in Builds : EmbedDone(b)

SpecReload == InitReload /\ [][NextReload]_vars

\* The folder lists REFERENCE_FOLDERS_JSON holds in the deployments of the
\* build on its own.
FolderLists ==
    { <<"Reference Female A", "reference male B">>,
      <<"Reference Female C", "Reference Empty">>,
      <<"Male and Female", "FEMALE Faces", "Males", "Reference Mixed">> }

\* The values of MAX_EMBEDS_CONCURRENCY in those deployments.
PoolSizes == 0..3

(* The build on its own, two reloads at a time: part_000 with credentials, *)
(* an explicit folder list and a pool of any size, or no list and a pool   *)
(* of size 1.                                                              *)
InitBuild ==
    /\ clusters = <<>>
    /\ \/ config \in [creds : {TRUE}, refJson : {"list"}, light : {FALSE},
                       evalKey : {TRUE}, hfKey : {TRUE}, traffic : {"plain"},
                       server : {"part_000"}, backend : {"any"},
                       folders : FolderLists, pool : PoolSizes]
       \/ config \in [creds : {TRUE}, refJson : {"unset"}, light : {FALSE},
                       evalKey : {TRUE}, hfKey : {TRUE}, traffic : {"plain"},
                       server : {"part_000"}, backend : {"any"},
                       folders : {<<>>}, pool : {1}]
    /\ lc = [b \in Builds |-> IdleBuild]
    /\ ev = [e \in Evals |-> IdleEval]
    /\ embedCache = [u \in MemoUrls |-> <<>>]
    /\ ge = [g \in Gets |-> IF g = "g1" THEN IdleGet ELSE OffGet]
    /\ te = [t \in Tests |-> IdleTest]

NextBuild ==
    \/ \E b \in Builds : ReloadRefs(b)
    \/ \E b \in Builds : DiscoverDone(b)
    \/ \E b \in Builds : ListDone(b)
    \/ \E b \in Builds : EmbedDone(b)

SpecBuild == InitBuild /\ [][NextBuild]_vars

(* The build with the scheduling Node gives it: every storage call and     *)
(* every embedding call returns or fails.                                  *)
FairBuild ==
    /\ SpecBuild
    /\ \A b \in Builds : /\ WF_vars(DiscoverDone(b))
                          /\ WF_vars(ListDone(b))
                          /\ WF_vars(EmbedDone(b))

(* Two evaluations by part_000 over one published cache that no build       *)
(* replaces: the requests of two clients, or one request sent twice.       *)

PairEvals == {"e1", "e2"}

\* The caches of two groups among those of EvalCaches.
PairCaches == {c \in EvalCaches : Len(c) = 2}

InitPair ==
    /\ clusters \in PairCaches
    /\ config \in [creds : {TRUE}, refJson : {"unset"}, light : {FALSE},
                    evalKey : {TRUE}, hfKey : {TRUE}, traffic : {"pairs"},
                    server : {"part_000"}, backend : {"any"},
                    folders : {ExplicitFolders},
                    pool : {MAX_EMBEDS_CONCURRENCY}]
    /\ lc = [b \in Builds |-> IdleBuild]
    /\ ev = [e \in PairEvals |-> IdleEval]
    /\ embedCache = [u \in MemoUrls |-> <<>>]
    /\ ge = [g \in Gets |-> IF g = "g1" THEN IdleGet ELSE OffGet]
    /\ te = [t \in Tests |-> IdleTest]

NextPair ==
    \/ \E e \in PairEvals : EvaluateStart(e)
    \/ \E e \in PairEvals : PhotoEmbedDone(e)

SpecPair == InitPair /\ [][NextPair]_vars

(* Two evaluations by part_000 over a cache whose centroids are the         *)
(* averages of the photo lists of VectorPhotos, the zero vector and        *)
(* vectors of three components.                                            *)

CosineCaches ==
    { << MakeGroup("Reference Female A", <<<<Scale, 0>>>>, 1),
         MakeGroup("reference male B", <<<<0, Scale>>>>, 1),
         MakeGroup("Reference Female C", <<<<Scale, Scale>>>>, 2),
         MakeGroup("Reference Mixed", <<<<0, 0>>>>, 2),
         MakeGroup("Males", <<<<Scale>>>>, 1),
         MakeGroup("FEMALE Faces", <<<<Scale, 0, 7>>>>, 1),
         MakeGroup("Male and Female", <<<<0, 0, 5>>>>, 1) >>,
      << MakeGroup("Reference Female A", <<<<0, 0, 5>>>>, 1),
         MakeGroup("reference male B", <<<<Scale, Scale>>>>, 2),
         MakeGroup("Reference Female C", <<<<Scale, Scale, Scale>>>>, 2),
         MakeGroup("Reference Mixed", <<<<0, Scale>>>>, 1),
         MakeGroup("Males", <<<<0>>>>, 2),
         MakeGroup("FEMALE Faces", <<<<Scale>>>>, 1),
         MakeGroup("Male and Female", <<<<Scale, 0>>>>, 1) >> }

InitCosine ==
    /\ clusters \in CosineCaches
    /\ config \in [creds : {TRUE}, refJson : {"unset"}, light : {FALSE},
                    evalKey : {TRUE}, hfKey : {TRUE}, traffic : {"vectors"},
                    server : {"part_000"}, backend : {"any"},
                    folders : {ExplicitFolders},
                    pool : {MAX_EMBEDS_CONCURRENCY}]
    /\ lc = [b \in Builds |-> IdleBuild]
    /\ ev = [e \in PairEvals |-> IdleEval]
    /\ embedCache = [u \in MemoUrls |-> <<>>]
    /\ ge = [g \in Gets |-> IF g = "g1" THEN IdleGet ELSE OffGet]
    /\ te = [t \in Tests |-> IdleTest]

SpecCosine == InitCosine /\ [][NextPair]_vars

(* The scoring of /evaluate on its own: part_000 or part_001 with an empty *)
(* cache, requests whose gender, height_cm and measurements range widely.  *)
InitScores ==
    /\ clusters = <<>>
    /\ config \in [creds : {TRUE}, refJson : {"unset"}, light : {FALSE},
                    evalKey : {TRUE}, hfKey : {TRUE}, traffic : {"scores"},
                    server : {"part_000", "part_001"}, backend : {"any"},
                          folders : {ExplicitFolders},
                          pool : {MAX_EMBEDS_CONCURRENCY}]
    /\ lc = [b \in Builds |-> IdleBuild]
    /\ ev = [e \in Evals |-> IdleEval]
    /\ embedCache = [u \in MemoUrls |-> <<>>]
    /\ ge = [g \in Gets |-> IF g = "g1" THEN IdleGet ELSE OffGet]
    /\ te = [t \in Tests |-> IdleTest]

NextScores ==
    \/ \E e \in Evals : config.server = "part_000" /\ EvaluateStart(e)
    \/ \E e \in Evals : config.server = "part_001" /\ EvaluateStart001(e)

SpecScores == InitScores /\ [][NextScores]_vars

---------------------------------------------------------------------------
(* Properties of the cache builder and of /evaluate, under Spec.           *)

\* C1: at most one cache build is in progress at any time: a build that is
\* requested while another one runs is refused or waits, so no two builds
\* are between their start and their end in the same state.
C1_OneBuildAtATime ==
    Cardinality({b \in Builds : Running(b)}) <= 1

\* C2: the face result of an /evaluate response is the result of one group
\* set: the one that was published when the request tested the cache for
\* emptiness, or the one that was published when it scanned, used for the
\* test and for the scan alike.
C2_EvaluateSeesOneGroupSet ==
    \A e \in Evals :
        LET r == ev[e]
            OnSet(S) == IF Len(S) = 0
                        THEN NeutralFace("no reference faces loaded")
                        ELSE FaceResult(r.photoVecs, S)
        IN  (r.pc = "done" /\ r.status = 200 /\ ~config.light)
                => r.face \in {OnSet(r.atCheck), OnSet(r.atScan)}

\* C3: a build that fails leaves the published cache as it was: no step of
\* a build changes clusters unless that step completes the build, and a
\* build that has failed takes no further step.
C3_FailedBuildLeavesCache ==
    [][\A b \in Builds :
          /\ (lc'[b] # lc[b] /\ lc'[b].pc # "done") => clusters' = clusters
          /\ lc[b].pc = "failed" => lc'[b] = lc[b]]_vars

\* A build failed on a storage error after it had built a group, while the
\* cache held the groups of an earlier build.
C3_Witness ==
    \E b \in Builds :
        /\ lc[b].pc = "failed"
        /\ lc[b].fi >= 1
        /\ Len(lc[b].out) >= 1
        /\ Len(clusters) >= 1

\* C4: every published group has a sample count of at least 1 and a
\* centroid that is not empty.
C4_PublishedGroupsNonEmpty ==
    \A i \in 1..Len(clusters) :
        /\ clusters[i].size >= 1
        /\ Len(clusters[i].centroid) >= 1

\* A build published a group although every image of another folder of its
\* list failed to embed.
C4_Witness ==
    \E b \in Builds :
        /\ lc[b].pc = "done"
        /\ Len(clusters) >= 1
        /\ clusters = lc[b].out
        /\ \E i \in 1..Len(lc[b].folderNames) :
              lc[b].oks[i] = <<>> /\ lc[b].fails[i] # {}

\* C5: after a build, every group it published has as sample count the
\* number of images that embedded among the first MAX_REFS_PER_FOLDER URLs
\* of its folder's listing, each of which was tried exactly once, and as
\* centroid the sum of their vectors divided by that number; a folder none
\* of whose images embedded has no group.
C5_CentroidIsMeanOfEmbedded ==
    /\ Len(clusters) > 0 => \E b \in Builds : lc[b].pc = "done" /\ clusters = lc[b].out
    /\ \A b \in Builds :
        LET r == lc[b] IN
        r.pc = "done" =>
          /\ \A j \in 1..Len(r.out) :
                \E i \in 1..Len(r.folderNames) : r.folderNames[i] = r.out[j].label
          /\ \A i \in 1..Len(r.folderNames) :
                LET all == FolderUrls(r.folderNames[i])
                    n   == IF Len(all) < MAX_REFS_PER_FOLDER THEN Len(all)
                           ELSE MAX_REFS_PER_FOLDER
                    ok  == r.oks[i]
                    gs  == {j \in 1..Len(r.out) : r.out[j].label = r.folderNames[i]}
                IN  /\ {ok[k] : k \in 1..Len(ok)} \cup r.fails[i] = {all[k] : k \in 1..n}
                    /\ Len(ok) + Cardinality(r.fails[i]) = n
                    /\ IF Len(ok) = 0 THEN gs = {}
                       ELSE /\ Cardinality(gs) = 1
                            /\ \A j \in gs :
                                 /\ r.out[j].size = Len(ok)
                                 /\ r.out[j].centroid =
                                      [d \in 1..Len(Vec(ok[1])) |->
                                         SumTo([k \in 1..Len(ok) |-> Vec(ok[k])[d]], Len(ok))
                                            \div Len(ok)]

\* The folder with two images, of which b1 failed and b2 embedded, is
\* published with count 1 and the vector of b2 as centroid.
C5_Witness ==
    \E b \in Builds : \E i \in 1..Len(lc[b].folderNames) : \E j \in 1..Len(clusters) :
        /\ lc[b].pc = "done"
        /\ clusters = lc[b].out
        /\ lc[b].folderNames[i] = "reference male B"
        /\ lc[b].fails[i] = {"b1"}
        /\ lc[b].oks[i] = <<"b2">>
        /\ clusters[j].label = "reference male B"
        /\ clusters[j].size = 1
        /\ clusters[j].centroid = Vec("b2")

\* C6: while a cache build runs, the number of embedding calls of cache
\* builds that are in flight at the same time is at most
\* MAX_EMBEDS_CONCURRENCY.
C6_EmbedsInFlightBounded ==
    \A b1 \in Builds : \A b2 \in Builds :
        LET InFlight(b) ==
                Cardinality({w \in DOMAIN lc[b].workers : lc[b].workers[w] # NoWorker})
        IN  /\ InFlight(b1) <= MAX_EMBEDS_CONCURRENCY
            /\ b1 # b2 => InFlight(b1) + InFlight(b2) <= MAX_EMBEDS_CONCURRENCY

\* The pool of one build alone keeps to its size: the part of C6 the code
\* does guarantee.
PoolOfOneBuildBounded ==
    \A b \in Builds :
        Cardinality({w \in DOMAIN lc[b].workers : lc[b].workers[w] # NoWorker})
            <= MAX_EMBEDS_CONCURRENCY

---------------------------------------------------------------------------
(* Properties of the provider, under SpecProvider and FairProvider.        *)

C8_Every5xxTriedAgain ==
    [][\A g \in Gets :
          LET r    == ge[g]
              r2   == ge'[g]
              resp == r2.resp
          IN  (r.pc = "req" /\ r2 # r /\ resp.kind = "status"
                 /\ resp.status \in 500..599) =>
                IF r.attempt < 3
                THEN /\ r2.pc = "sleep"
                     /\ r2.delay = 400 * r.attempt
                     /\ r2.m = r.m /\ r2.rt = r.rt
                ELSE /\ r2.pc \in {"req", "failed"}
                     /\ r2.delay = 0
                     /\ r2.pc = "req" => r2.reqEp = r.reqEp + 1]_vars

\* The part of C8 the code does guarantee: the statuses 500, 502, 503 and
\* 504 are tried again with the delays 400 and 800, and a backoff is
\* followed by the next try at the same endpoint.
ListedStatusesTriedAgain ==
    [][\A g \in Gets :
          LET r    == ge[g]
              r2   == ge'[g]
              resp == r2.resp
          IN  /\ (r.pc = "req" /\ r2 # r /\ resp.kind = "status"
                    /\ resp.status \in {500, 502, 503, 504}) =>
                   IF r.attempt < 3
                   THEN /\ r2.pc = "sleep"
                        /\ r2.delay = 400 * r.attempt
                        /\ r2.m = r.m /\ r2.rt = r.rt
                   ELSE /\ r2.pc \in {"req", "failed"}
                        /\ r2.delay = 0
              /\ (r.pc = "sleep" /\ r2 # r) =>
                   /\ r2.pc = "req"
                   /\ r2.reqEp = r.reqEp
                   /\ r2.attempt = r.attempt + 1]_vars

\* C9: the requests of a call go to the endpoints in the order of the
\* lists, the models in order and for each model its routes in order: the
\* first request goes to the first endpoint, every later one to the same
\* endpoint or, after a failure, to the next one.  The call returns the
\* vector of the response of the first endpoint that does not fail, and
\* sends no request after it.
C9_EndpointsInOrderFirstSuccess ==
    [][\A g \in Gets :
          LET r    == ge[g]
              r2   == ge'[g]
              resp == r2.resp
              Pos(x) == (x.m - 1) * 3 + x.rt
              failed == \/ resp.kind \in {"unparseable", "network", "status"}
                        \/ resp.kind = "ok" /\ resp.body.shape = "null"
          IN  /\ (r2.nreq # r.nreq /\ r2.pc # "idle") =>
                    /\ r2.nreq = r.nreq + 1
                    /\ r2.pc = "req"
                    /\ r2.reqEp = Pos(r2)
                    /\ \/ r.nreq = 0 /\ Pos(r2) = 1
                       \/ r.nreq > 0 /\ Pos(r2) = Pos(r)
                       \/ r.nreq > 0 /\ Pos(r2) = Pos(r) + 1 /\ failed
              /\ (r.pc = "req" /\ r2 # r /\ ~failed) =>
                    /\ r2.pc = "done"
                    /\ r2.okEp = Pos(r)
                    /\ r2.nreq = r.nreq
                    /\ r2.result = <<poolToVector(resp.body)>>
                    /\ embedCache'[r.url] = r2.result
              /\ r.pc = "done" => (r2 = r \/ r2.pc = "idle")
              /\ r2.pc = "done" /\ r2.okEp = 0 => r2.nreq = 0]_vars

\* The fifth endpoint (the second route of the second model) answered with
\* a matrix after the four endpoints before it had failed, and the call
\* returned the column means of that matrix.
C9_Witness ==
    \E g \in Gets :
        /\ ge[g].pc = "done"
        /\ ge[g].okEp = 5
        /\ ge[g].m = 2 /\ ge[g].rt = 2
        /\ ge[g].nreq >= 5
        /\ ge[g].resp.body.shape = "matrix"
        /\ ge[g].result = <<<<2 * Scale, 0>>>>

\* C10: a call of getEmbedding ends, with a vector or with an error, after
\* at most 3 * E requests, E the number of endpoints; when it ends with an
\* error it returns no vector, and the error is the failure of the last
\* request, which went to the last endpoint (or, when no request was sent,
\* the missing key or the image that could not be fetched).
C10_GetEmbeddingEnds ==
    /\ [](\A g \in Gets :
            LET r == ge[g] IN
            /\ r.nreq <= 3 * NEndpoints
            /\ r.pc = "done" => r.result # <<>>
            /\ r.pc = "failed" =>
                 /\ r.result = <<>>
                 /\ r.lastErr # <<>>
                 /\ r.nreq > 0 =>
                      /\ r.reqEp = NEndpoints
                      /\ r.lastErr = <<<<NEndpoints, r.resp.kind, r.resp.status>>>>
                      /\ r.resp.kind # "none"
                 /\ r.nreq = 0 =>
                      r.lastErr[1] \in {"HUGGINGFACE_API_KEY missing",
                                        "image_fetch_failed"})
    /\ \A g \in Gets :
          (ge[g].pc \in {"image", "req", "sleep"}) ~> (ge[g].pc \in {"done", "failed"})

\* Every endpoint answered 503 to each of its three requests: the call
\* failed after 3 * E requests with the 503 of the last endpoint.
C10_Witness ==
    \E g \in Gets :
        /\ ge[g].pc = "failed"
        /\ ge[g].nreq = 3 * NEndpoints
        /\ ge[g].lastErr = <<<<NEndpoints, "status", 503>>>>

---------------------------------------------------------------------------
(* Properties of the memo with two callers, under SpecMemo.                *)

\* C11: once getEmbedding has succeeded for a URL, every later call for
\* that URL returns the same vector: the vector the memo holds for a URL is
\* never replaced by another one, and nothing is taken out of the memo.
C11_MemoKeepsItsVector ==
    [][\A u \in MemoUrls :
          embedCache[u] # <<>> => embedCache'[u] = embedCache[u]]_vars

\* A call for a URL that is in the memo returns the vector of the memo at
\* once, with no image fetch and no backend request.
MemoHitAnswersFromMemo ==
    [][\A g \in Gets :
          (ge[g].pc = "idle" /\ ge'[g].pc # "idle"
              /\ embedCache[ge'[g].url] # <<>>)
             => /\ ge'[g].pc = "done"
                /\ ge'[g].result = embedCache[ge'[g].url]
                /\ ge'[g].nreq = 0
                /\ embedCache' = embedCache]_vars

\* A call that fails stores nothing.
FailedCallStoresNothing ==
    [][\A g \in Gets :
          (ge[g].pc # "failed" /\ ge'[g].pc = "failed")
             => embedCache' = embedCache]_vars

\* The memo only holds vectors that an ok response of a backend gave.
MemoHoldsBackendVectors ==
    \A u \in ProviderUrls :
        embedCache[u] # <<>> =>
            \E m \in 1..NModels : \E body \in Bodies(m) :
                /\ ~Throws([kind |-> "ok", status |-> 200, body |-> body])
                /\ embedCache[u] = <<poolToVector(body)>>

---------------------------------------------------------------------------
(* Properties of /evaluate on its own, under SpecEval.                     *)

\* A request that passed the checks of the token and of photos and that the
\* matcher, not the LIGHT_MODE mock, serves.
Matched(r) ==
    /\ r.pc # "idle" /\ r.status \notin {400, 401}
    /\ config.server \in {"part_000", "part_001"} /\ ~config.light

\* C12: whenever the cache holds no group, an authorized valid /evaluate is
\* answered at once with status 200, face similarity 0.5, face cluster
\* "none" and the note that no reference faces are loaded, and no embedding
\* call has been made for it.
C12_EmptyCacheNeutral ==
    \A e \in Evals :
        LET r == ev[e] IN
        (Matched(r) /\ r.atCheck = <<>>)
            => /\ r.pc = "done" /\ r.status = 200
               /\ 2 * r.face_similarity = One
               /\ r.face_cluster = "none"
               /\ r.face.faceReason = "no reference faces loaded"
               /\ r.embeds = 0 /\ r.photoVecs = <<>>

\* A request with six photos answered over an empty cache.
C12_Witness ==
    \E e \in Evals :
        /\ Matched(ev[e]) /\ ev[e].atCheck = <<>> /\ ev[e].pc = "done"
        /\ clusters = <<>> /\ Len(ev[e].body.photos) = 6

\* C13: when the cache is non-empty and every photo of the submission that
\* is embedded fails, the response has face similarity 0.5, face cluster
\* "none" and the note that no photo could be analyzed.
C13_AllFailedNeutral ==
    \A e \in Evals :
        LET r == ev[e] IN
        (Matched(r) /\ r.pc = "done" /\ r.atCheck # <<>> /\ r.photoVecs = <<>>)
            => /\ r.status = 200
               /\ 2 * r.face_similarity = One
               /\ r.face_cluster = "none"
               /\ r.face.faceReason = "no valid photos to analyze"

\* The same for the server of part_000.
AllFailedNeutral000 ==
    \A e \in Evals :
        LET r == ev[e] IN
        (Matched(r) /\ config.server = "part_000" /\ r.pc = "done"
            /\ r.atCheck # <<>> /\ r.photoVecs = <<>>)
            => /\ r.status = 200
               /\ 2 * r.face_similarity = One
               /\ r.face_cluster = "none"
               /\ r.face.faceReason = "no valid photos to analyze"

\* The vectors of the photos photos[1..n] whose embedding did not throw, in
\* the order of the photos.
RECURSIVE Embedded(_, _, _)
Embedded(photos, failedAt, n) ==
    IF n = 0 THEN <<>>
    ELSE IF n \in failedAt THEN Embedded(photos, failedAt, n - 1)
    ELSE Append(Embedded(photos, failedAt, n - 1), Vec(photos[n]))

\* C14: every authorized /evaluate request with a non-empty photos array is
\* answered with status 200 and a decision among proceed, review and reject,
\* whichever embedding calls failed and whatever the cache holds; a failed
\* embedding call takes only its own photo out of the vectors that are
\* matched.
C14_AlwaysADecision ==
    \A e \in Evals :
        LET r == ev[e] IN
        (r.pc = "done" /\ r.status \notin {400, 401})
            => /\ r.status = 200
               /\ r.decision \in {"proceed", "review", "reject"}
               /\ r.photoVecs = Embedded(r.body.photos, r.failedAt, r.embeds)

\* An answered request of three photos the first of which failed to embed.
C14_Witness ==
    \E e \in Evals :
        /\ ev[e].pc = "done" /\ ev[e].status = 200 /\ ~config.light
        /\ ev[e].failedAt = {1} /\ Len(ev[e].photoVecs) = 2

\* A request of the server of part_000 that the scan of the groups served.
Scanned000(r) ==
    /\ Matched(r) /\ config.server = "part_000" /\ r.pc = "done"
    /\ r.atScan # <<>> /\ r.photoVecs # <<>>

\* The cosines of the averaged submission vector with the groups scanned.
Sims(r) ==
    [i \in 1..Len(r.atScan) |->
        cosine(Average(r.photoVecs), r.atScan[i].centroid)]

\* C15: when the cache is non-empty and at least one photo embedded, the
\* face cluster of the response is the label of the first group, in cache
\* order, whose cosine with the submission vector is the greatest: a group
\* of the cache, with no greater cosine anywhere and only smaller ones
\* before it.
C15_FirstMaximalGroup ==
    \A e \in Evals :
        LET r == ev[e] IN
        Scanned000(r) =>
            \E i \in 1..Len(r.atScan) :
                /\ r.face_cluster = r.atScan[i].label
                /\ \A j \in 1..Len(r.atScan) : Sims(r)[j] <= Sims(r)[i]
                /\ \A j \in 1..(i - 1) : Sims(r)[j] < Sims(r)[i]

\* The same whenever some group has a cosine above -1.
FirstMaximalGroupAboveMinusOne ==
    \A e \in Evals :
        LET r == ev[e] IN
        (Scanned000(r) /\ \E j \in 1..Len(r.atScan) : Sims(r)[j] > 0 - One) =>
            \E i \in 1..Len(r.atScan) :
                /\ r.face_cluster = r.atScan[i].label
                /\ \A j \in 1..Len(r.atScan) : Sims(r)[j] <= Sims(r)[i]
                /\ \A j \in 1..(i - 1) : Sims(r)[j] < Sims(r)[i]

\* The centroid of a cached group: the cache of part_000 keeps it, that of
\* part_001 keeps the vectors it is the mean of.
CentroidOf(c) ==
    IF "centroid" \in DOMAIN c THEN c.centroid ELSE Average(c.vecs)

MaxOf(S) == CHOOSE x \in S : \A y \in S : y <= x

\* C16: the matcher compares the mean of the embedded photo vectors with
\* every group of the cache: the groups scanned are the groups of the cache,
\* and the face score is the one the greatest of these cosines gives.
C16_AverageAgainstEveryGroup ==
    \A e \in Evals :
        LET r == ev[e] IN
        (Matched(r) /\ r.pc = "done" /\ r.atCheck # <<>> /\ r.photoVecs # <<>>)
            => /\ r.atScan = r.atCheck
               /\ r.face.faceScore =
                     clamp((MaxOf({cosine(Average(r.photoVecs),
                                          CentroidOf(r.atCheck[i])) :
                                      i \in 1..Len(r.atCheck)}) + One) \div 2,
                           0, One)

\* The same for the server of part_000.
AverageAgainstEveryGroup000 ==
    \A e \in Evals :
        LET r == ev[e] IN
        Scanned000(r)
            => /\ r.atScan = r.atCheck
               /\ r.face.faceScore =
                     clamp((MaxOf({Sims(r)[i] : i \in 1..Len(r.atScan)}) + One)
                              \div 2, 0, One)

\* C17: for a submission of any number of photos at most the first PhotoCap
\* photos are embedded; the photos beyond them cause no embedding call and
\* count in the photo bonus and in the details string.
C17_AtMostFiveEmbedded ==
    \A e \in Evals :
        LET r == ev[e] IN
        /\ r.embeds <= PhotoCap
        /\ (Matched(r) /\ r.pc = "done")
              => /\ r.details_photos = Len(r.body.photos)
                 /\ r.embeds = IF r.atCheck = <<>> THEN 0
                               ELSE Min(PhotoCap, Len(r.body.photos))

\* The same for the server of part_000.
AtMostFiveEmbedded000 ==
    \A e \in Evals :
        LET r == ev[e] IN
        config.server = "part_000" =>
            /\ r.embeds <= PhotoCap
            /\ (Matched(r) /\ r.pc = "done")
                  => /\ r.details_photos = Len(r.body.photos)
                     /\ r.embeds = IF r.atCheck = <<>> THEN 0
                                   ELSE Min(PhotoCap, Len(r.body.photos))

\* The cosines the scan of a request computes: of the averaged submission
\* vector with each centroid (part_000), of each photo vector with each
\* vector of the pool (part_001).
Cosines(r) ==
    IF config.server = "part_000"
    THEN {Sims(r)[i] : i \in 1..Len(r.atScan)}
    ELSE UNION { UNION { {cosine(r.photoVecs[k], r.atScan[i].vecs[j]) :
                             j \in 1..Len(r.atScan[i].vecs)} :
                         i \in 1..Len(r.atScan)} :
                 k \in 1..Len(r.photoVecs)}

MatchComputed(r) ==
    /\ Matched(r) /\ r.pc = "done" /\ r.photoVecs # <<>> /\ r.atScan # <<>>
    /\ Cosines(r) # {}

\* A response that carries a face similarity.
HasFace(r) ==
    /\ r.pc = "done" /\ r.status = 200
    /\ config.server \in {"part_000", "part_001"}

\* C18 (as amended): in every response the face similarity lies in [0,1],
\* and when a match was computed it is (c + 1) / 2, c the greatest cosine
\* found, written with three decimals: a multiple of 1/1000 at most 1/2000
\* away from (c + 1) / 2.
C18_HalfSumToThreeDecimals ==
    \A e \in Evals :
        LET r == ev[e] IN
        HasFace(r) =>
            /\ r.face_similarity >= 0 /\ r.face_similarity <= One
            /\ MatchComputed(r) =>
                  LET x == clamp((MaxOf(Cosines(r)) + One) \div 2, 0, One) IN
                  /\ r.face_similarity % (One \div 1000) = 0
                  /\ 2000 * (r.face_similarity - x) <= One
                  /\ 2000 * (x - r.face_similarity) <= One

\* A match whose greatest cosine is strictly between 0 and 1 and whose
\* (c + 1) / 2 is not a multiple of 1/1000.
C18_Witness ==
    \E e \in Evals :
        /\ MatchComputed(ev[e])
        /\ MaxOf(Cosines(ev[e])) > 0 /\ MaxOf(Cosines(ev[e])) < One
        /\ ev[e].face_similarity # (MaxOf(Cosines(ev[e])) + One) \div 2

\* C18 (as stated): when a match was computed the face similarity of the
\* response equals (c + 1) / 2.
C18_ExactHalfSum ==
    \A e \in Evals :
        LET r == ev[e] IN
        HasFace(r) =>
            /\ r.face_similarity >= 0 /\ r.face_similarity <= One
            /\ MatchComputed(r) =>
                  r.face_similarity =
                     clamp((MaxOf(Cosines(r)) + One) \div 2, 0, One)

\* C19: in every response that carries a decision, the decision is proceed
\* exactly when confidence >= 0.70, review exactly when
\* 0.45 <= confidence < 0.70, reject exactly when confidence < 0.45.
C19_ThresholdsExact ==
    \A e \in Evals :
        LET r == ev[e] IN
        (r.pc = "done" /\ r.status = 200) =>
            /\ r.decision = "proceed" <=> 100 * r.confidence >= 70 * One
            /\ r.decision = "review" <=> /\ 100 * r.confidence >= 45 * One
                                         /\ 100 * r.confidence < 70 * One
            /\ r.decision = "reject" <=> 100 * r.confidence < 45 * One

\* The same for the servers with face matching, LIGHT_MODE off.
ThresholdsExactWhenMatched ==
    \A e \in Evals :
        LET r == ev[e] IN
        (Matched(r) /\ r.pc = "done") =>
            /\ r.decision = "proceed" <=> 100 * r.confidence >= 70 * One
            /\ r.decision = "review" <=> /\ 100 * r.confidence >= 45 * One
                                         /\ 100 * r.confidence < 70 * One
            /\ r.decision = "reject" <=> 100 * r.confidence < 45 * One

\* The measurement and height scores of a request, by the tables of the
\* server that runs.
MeasOf(r) ==
    IF config.server = "part_002"
    THEN measScore002(GEN(r.body.gender), parseMeas(r.body.measurements))
    ELSE measScore(GEN(r.body.gender), parseMeas(r.body.measurements))

HeightOf(r) ==
    IF config.server = "part_002"
    THEN heightScore(PREFS002(GEN(r.body.gender)).height_cm, r.body.height_cm)
    ELSE heightScore(PREFS(GEN(r.body.gender)).height, r.body.height_cm)

\* 0 for 1 or 2 photos, 0.04 for 3, 0.08 for 4, 0.12 for 5 or more
PhotoBonus(n) ==
    IF n <= 2 THEN 0
    ELSE IF n >= 5 THEN (12 * One) \div 100
    ELSE ((n - 2) * 4 * One) \div 100

\* C20: for every valid submission the confidence is
\* 0.40 measurementScore + 0.25 heightScore + 0.30 faceSimilarity + 0.05 0.6
\* + photoBonus + tieBreak, clamped to [0,1], the face similarity being the
\* neutral 0.5 where no match is made; it lies in [0,1].
C20_BlendOfTheTerms ==
    \A e \in Evals :
        LET r == ev[e] IN
        (r.pc = "done" /\ r.status = 200 /\ ~config.light
            /\ config.server \in {"part_000", "part_002"}) =>
            /\ r.confidence >= 0 /\ r.confidence <= One
            /\ r.confidence =
                  clamp((40 * MeasOf(r) + 25 * HeightOf(r)
                           + 30 * r.face.faceScore + 3 * One) \div 100
                        + PhotoBonus(Len(r.body.photos))
                        + HashMod100(r.body.photos) * 3, 0, One)

\* The same for the server of part_000, LIGHT_MODE off.
BlendOfTheTerms000 ==
    \A e \in Evals :
        LET r == ev[e] IN
        (Matched(r) /\ r.pc = "done" /\ config.server = "part_000") =>
            /\ r.confidence >= 0 /\ r.confidence <= One
            /\ r.confidence =
                  clamp((40 * MeasOf(r) + 25 * HeightOf(r)
                           + 30 * r.face.faceScore + 3 * One) \div 100
                        + PhotoBonus(Len(r.body.photos))
                        + HashMod100(r.body.photos) * 3, 0, One)

---------------------------------------------------------------------------
(* Properties of the scoring of /evaluate, under SpecScores.               *)

\* The measurements "82-60-88" as characters.
Meas826088 == <<"8","2","-","6","0","-","8","8">>

\* The request of the worked example: three photos, "female", 177,
\* "82-60-88".
IsScenario1(r) ==
    /\ r.pc = "done" /\ r.status = 200 /\ r.atCheck = <<>>
    /\ r.body = [photos |-> <<"q1", "q2", "q3">>,
                 gender |-> <<"f","e","m","a","l","e">>,
                 height_cm |-> 177, measurements |-> Meas826088]

\* C21: the submission with three photos, gender "female", height_cm 177 and
\* measurements "82-60-88", evaluated against an empty cache, has
\* heightScore 1, measurementScore 1, face similarity 0.5 and the decision
\* proceed.
C21_Scenario1 ==
    \A e \in Evals :
       IsScenario1(ev[e])
          => /\ ev[e].hs = One
             /\ ev[e].ms = One
             /\ ev[e].face_similarity = One \div 2
             /\ ev[e].decision = "proceed"

\* What the servers answer to that submission: heightScore 0.65, the phrase
\* "height within range", and the rest as stated.
Scenario1AsComputed ==
    \A e \in Evals :
       IsScenario1(ev[e])
          => /\ 100 * ev[e].hs = 65 * One
             /\ ev[e].hReason = "height within range"
             /\ ev[e].ms = One
             /\ ev[e].face_similarity = One \div 2
             /\ ev[e].decision = "proceed"

Scenario1Answered == \E e \in Evals : IsScenario1(ev[e])

\* C26: for each gender profile heightScore is 0 for every height at or below
\* the profile minimum and for a missing or unparseable height, 1 for every
\* height at or above the profile maximum, and between 0 and 1 for every
\* input; no height makes the request fail.
C26_HeightScoreEnds ==
    \A e \in Evals :
       LET r == ev[e]
           h == r.body.height_cm
           P == IF r.GEN = "male" THEN [min |-> 182, max |-> 191]
                ELSE [min |-> 172, max |-> 182]
       IN  /\ r.scored
                => /\ r.hs >= 0 /\ r.hs <= One
                   /\ (h = 0 \/ h = NotANumber \/ h <= P.min) => r.hs = 0
                   /\ (h # NotANumber /\ h >= P.max) => r.hs = One
           /\ (r.pc = "done" /\ r.status = 500) => ~IsString(r.body.gender)

\* An unparseable height, a height equal to the minimum and one equal to the
\* maximum were scored.
C26_Witness ==
    \E e \in Evals :
       /\ ev[e].scored /\ ev[e].GEN = "male"
       /\ ev[e].body.height_cm \in {NotANumber, 182, 191}
       /\ ev[e].hs = IF ev[e].body.height_cm = 191 THEN One ELSE 0

\* An authorized request with a non-empty photos array that was answered.
Answered(r) ==
    /\ r.pc = "done" /\ Authorized(config, r.hdr)
    /\ isArray(r.body.photos) /\ Len(r.body.photos) > 0

\* The value is a string whose first character is "m" or "M".
StartsWithM(v) == IsString(v) /\ Len(v) > 0 /\ v[1] \in {"m", "M"}

\* C22: for every gender value of an authorized valid request, absent, empty,
\* a string or a JSON value that is not a string, the profile is male when
\* the value is a string that starts with "m" or "M" and female otherwise,
\* and the request is answered with an evaluation, not an error.
C22_EveryGenderEvaluated ==
    \A e \in Evals :
       Answered(ev[e])
          => /\ ev[e].status = 200
             /\ ev[e].scored
             /\ ev[e].GEN = IF StartsWithM(ev[e].body.gender) THEN "male"
                            ELSE "female"

\* The same for the gender values that are strings or falsy.
StringGenderEvaluated ==
    \A e \in Evals :
       (Answered(ev[e]) /\ ~GENThrows(ev[e].body.gender))
          => /\ ev[e].status = 200
             /\ ev[e].scored
             /\ ev[e].GEN = IF StartsWithM(ev[e].body.gender) THEN "male"
                            ELSE "female"

\* A gender that is a number other than 0 was answered 500.
NumberGenderFails ==
    \E e \in Evals :
       /\ Answered(ev[e]) /\ ev[e].body.gender = <<"number">>
       /\ ev[e].status = 500 /\ ~ev[e].scored

\* The triple lies within the ideal range of the profile.
InIdealRange(gen, t) ==
    IF gen = "male"
    THEN /\ 90 <= t.b /\ t.b <= 94
         /\ 73 <= t.w /\ t.w <= 77
         /\ 90 <= t.h /\ t.h <= 94
    ELSE t = [b |-> 82, w |-> 60, h |-> 88]

\* C27: for every measurement triple whose bust, waist and hip all lie within
\* the ideal range of the selected profile (male: inside the ideal sub-range
\* of each band; female: at the target values), measurementScore is exactly
\* 1.
C27_IdealTripleScoresOne ==
    \A e \in Evals :
       (ev[e].scored /\ ev[e].m # <<>> /\ InIdealRange(ev[e].GEN, ev[e].m[1]))
          => ev[e].ms = One

\* A male triple at the upper ends of the ideal sub-ranges was scored by the
\* server that adds the lean bonus.
C27_Witness ==
    \E e \in Evals :
       /\ ev[e].scored /\ ev[e].GEN = "male" /\ config.server = "part_001"
       /\ ev[e].m = <<[b |-> 94, w |-> 77, h |-> 94]>>
       /\ ev[e].ms = One

\* The bands of the male profile.
Bands ==
    [b |-> [min |-> 88, ideal |-> <<90, 94>>, max |-> 96],
     w |-> [min |-> 71, ideal |-> <<73, 77>>, max |-> 82],
     h |-> [min |-> 88, ideal |-> <<90, 94>>, max |-> 96]]

\* The score of one dimension in the banded model.
SubScore(v, band) ==
    IF v <= band.min \/ v >= band.max THEN 0
    ELSE IF v < band.ideal[1]
         THEN ((v - band.min) * One) \div (band.ideal[1] - band.min)
    ELSE IF v > band.ideal[2]
         THEN ((band.max - v) * One) \div (band.max - band.ideal[2])
    ELSE One

\* Bust, waist and hip of the triple all lie outside the bands of the male
\* profile and farther than the tolerance from the female targets.
FarOutside(t) ==
    /\ t.b <= 70 \/ t.b >= 100
    /\ t.w <= 50 \/ t.w >= 90
    /\ t.h <= 70 \/ t.h >= 100

\* C28: in the banded (male) model the combined score is the weighted mean
\* (bust + 1.3 * waist + hip) / 3.3 of the three sub-scores, each 0 outside
\* its band, with nothing added; and for either gender a triple whose three
\* dimensions are all far outside, above or below, has measurementScore 0
\* and the phrase "measurements outside preferred band".
C28_BandedMeanNothingAdded ==
    \A e \in Evals :
       LET r == ev[e] IN
       (r.scored /\ r.m # <<>>)
          => /\ r.GEN = "male"
                  => r.ms = (10 * SubScore(r.m[1].b, Bands.b)
                              + 13 * SubScore(r.m[1].w, Bands.w)
                              + 10 * SubScore(r.m[1].h, Bands.h)) \div 33
             /\ FarOutside(r.m[1])
                  => /\ r.ms = 0
                     /\ r.mReason = "measurements outside preferred band"

\* The same for the server of part_000, which adds nothing.
BandedMeanNothingAdded000 ==
    config.server = "part_000" => C28_BandedMeanNothingAdded

\* The server of part_001 scored the male triple 50-50-50 at 0.03.
LeanBonusOnFarBelow ==
    \E e \in Evals :
       /\ ev[e].scored /\ ev[e].GEN = "male" /\ config.server = "part_001"
       /\ ev[e].m = <<[b |-> 50, w |-> 50, h |-> 50]>>
       /\ 100 * ev[e].ms = 3 * One

\* 1 - |value - target| / tolerance, clamped to [0, 1].
Closeness(v, target, tol) ==
    LET s == One - (Abs(v - target) * One) \div tol IN
    IF s < 0 THEN 0 ELSE IF s > One THEN One ELSE s

\* C29: in the target and tolerance (female) model each dimension is scored
\* as 1 - |value - target| / tolerance clamped to [0, 1] before the three are
\* combined as (bust + 1.2 * waist + hip) / 3.2, so that a dimension far from
\* its target contributes 0 and does not lower the other two.
C29_EachDimensionClamped ==
    \A e \in Evals :
       LET r == ev[e] IN
       (r.scored /\ r.m # <<>> /\ r.GEN = "female")
          => r.ms = (10 * Closeness(r.m[1].b, 82, 6)
                      + 12 * Closeness(r.m[1].w, 60, 4)
                      + 10 * Closeness(r.m[1].h, 88, 6)) \div 32

\* The same for the server of part_001, which clamps each dimension.
EachDimensionClamped001 ==
    config.server = "part_001" => C29_EachDimensionClamped

\* The server of part_000 scored the female triple 70-60-88 at 0.375.
FarBustLowersTheOthers ==
    \E e \in Evals :
       /\ ev[e].scored /\ ev[e].GEN = "female" /\ config.server = "part_000"
       /\ ev[e].m = <<[b |-> 70, w |-> 60, h |-> 88]>>
       /\ 1000 * ev[e].ms = 375 * One

\* The numeric tokens of the measurements fields of the scoring requests.
TokensOf(mStr) ==
    CASE mStr = <<>> -> <<>>
      [] mStr = <<"number">> -> <<>>
      [] mStr = <<"8","2">> -> <<82>>
      [] mStr = <<"8","2","-","6","0">> -> <<82, 60>>
      [] mStr = Meas826088 -> <<82, 60, 88>>
      [] mStr = <<"9","2","-","7","5","-","9","2">> -> <<92, 75, 92>>
      [] mStr = <<"7","0","-","6","0","-","8","8">> -> <<70, 60, 88>>
      [] mStr = <<"2","0","0","-","2","0","0","-","2","0","0">>
            -> <<200, 200, 200>>
      [] mStr = <<"5","0","-","5","0","-","5","0">> -> <<50, 50, 50>>
      [] mStr = <<"9","0","-","7","3","-","9","0">> -> <<90, 73, 90>>
      [] mStr = <<"9","4","-","7","7","-","9","4">> -> <<94, 77, 94>>
      [] mStr = <<"8","9","-","7","2","-","8","9">> -> <<89, 72, 89>>
      [] mStr = <<"9","7","-","7","5","-","9","2">> -> <<97, 75, 92>>
      [] mStr = <<"8","8","-","6","0","-","8","8">> -> <<88, 60, 88>>
      [] mStr = <<"8","2","-","6","0","-","8","8","-","9","9">>
            -> <<82, 60, 88, 99>>
      [] mStr = <<"6","0","-","8","2","-","8","8">> -> <<60, 82, 88>>

\* C30: a measurements value that is absent, not a string, or has fewer than
\* three numeric tokens parses to "no measurements", never to a partial
\* record, and gives measurementScore 0 and no measurement phrase in the
\* reason; a string with three or more numeric tokens gives the first three
\* as bust, waist and hip, in that order.
C30_ThreeTokensOrNone ==
    \A e \in Evals :
       LET r == ev[e]
           t == TokensOf(r.body.measurements)
       IN  r.scored
              => IF ~IsString(r.body.measurements) \/ Len(t) < 3
                 THEN r.m = <<>> /\ r.ms = 0 /\ r.mReason = ""
                 ELSE /\ r.m = <<[b |-> t[1], w |-> t[2], h |-> t[3]]>>
                      /\ r.mReason # ""

\* A string with two tokens was scored without measurements.
C30_Witness ==
    \E e \in Evals :
       /\ ev[e].scored /\ ev[e].body.measurements = <<"8","2","-","6","0">>
       /\ ev[e].m = <<>> /\ ev[e].mReason = ""

\* A string with four tokens gave its first three.
FourTokensGiveThree ==
    \E e \in Evals :
       /\ ev[e].scored
       /\ ev[e].body.measurements
             = <<"8","2","-","6","0","-","8","8","-","9","9">>
       /\ ev[e].m = <<[b |-> 82, w |-> 60, h |-> 88]>>

---------------------------------------------------------------------------
(* Properties of the refusals of /evaluate, under SpecEval.                *)

\* The request carries the configured credential as a bearer token.
HasCredential(r) == config.evalKey /\ r.hdr = <<"Bearer ", "key">>

\* The photos field is absent, not an array, or empty.
BadPhotos(r) == r.body.photos \in {<<>>, NotArray}

\* C23: a request with a missing or wrong bearer credential, or one arriving
\* when no credential is configured, is answered 401, and an authorized
\* request whose photos field is absent, not an array or empty is answered
\* 400; an unauthorized request is answered 401 whatever its photos are;
\* and a request answered 401 or 400 has made no embedding call and no score
\* computation, and makes none afterwards.
C23_RefusedBeforeAnyWork ==
    /\ [](\A e \in Evals :
            LET r == ev[e] IN
            r.pc # "idle"
               => /\ r.status = 401 <=> ~HasCredential(r)
                  /\ r.status = 400 <=> (HasCredential(r) /\ BadPhotos(r))
                  /\ r.status \in {400, 401}
                       => /\ r.pc = "done"
                          /\ r.embeds = 0 /\ r.photoVecs = <<>>
                          /\ ~r.scored
                          /\ r.decision = "" /\ r.confidence = 0)
    /\ [][\A e \in Evals :
             ev[e].status \in {400, 401}
                => UNCHANGED <<ev, embedCache, ge>>]_vars

\* A request with a wrong bearer token and a photos field that is not an
\* array was answered 401.
C23_Witness ==
    \E e \in Evals :
       /\ ev[e].pc = "done" /\ ev[e].status = 401
       /\ config.evalKey /\ ev[e].hdr = <<"Bearer ", "wrong">>
       /\ ev[e].body.photos = NotArray

\* A request with the right token and a photos field that is not an array
\* was answered 400.
NotArrayRefused ==
    \E e \in Evals :
       /\ ev[e].pc = "done" /\ ev[e].status = 400
       /\ HasCredential(ev[e]) /\ ev[e].body.photos = NotArray

---------------------------------------------------------------------------
(* Properties of the admin endpoints.                                      *)

\* Build b completes in this step: it publishes and answers 200.
Publishes(b) == lc[b].pc # "done" /\ lc'[b].pc = "done" /\ lc'[b].status = 200

\* C24: the published cache changes only in the publish step of a build that
\* succeeds, and then to the groups that build made, whole; a step of
\* /evaluate or of /admin/test_embed, a reload refused for its token and a
\* reload skipped in LIGHT_MODE leave it as it was, so that no group of the
\* cache has its label, gender, size or centroid changed by any of them.
C24_CacheChangesOnlyOnPublish ==
    [][/\ clusters' # clusters
            => \E b \in Builds : Publishes(b) /\ clusters' = lc'[b].out
       /\ (ev' # ev \/ te' # te) => clusters' = clusters
       /\ \A b \in Builds :
             (lc'[b] # lc[b] /\ lc'[b].pc \in {"refused", "skipped"})
                => clusters' = clusters]_vars

\* With a cache published by one reload: another reload was refused, a test
\* embedding was answered and an evaluation was answered.
C24_Witness ==
    \E b1 \in Builds : \E b2 \in Builds : \E e \in Evals : \E t \in Tests :
       /\ lc[b1].pc = "done" /\ clusters = lc[b1].out /\ Len(clusters) >= 1
       /\ lc[b2].pc = "refused"
       /\ te[t].pc = "done" /\ te[t].status = 200
       /\ ev[e].pc = "done" /\ ev[e].status = 200 /\ Len(ev[e].atScan) >= 1

\* In LIGHT_MODE a reload and a test embedding were skipped.
SkippedInLightMode ==
    \E b \in Builds : \E t \in Tests :
       /\ config.light /\ lc[b].pc = "skipped" /\ te[t].pc = "skipped"
       /\ clusters = <<>>

\* The folders of build r of which at least one image embedded, in the order
\* of the folder list.
RECURSIVE BuiltFolders(_, _)
BuiltFolders(r, i) ==
    IF i > Len(r.folderNames) THEN <<>>
    ELSE (IF Len(r.oks[i]) > 0 THEN <<i>> ELSE <<>>) \o BuiltFolders(r, i + 1)

\* C25: the response of a successful reload lists the label, the gender tag
\* and the sample count of exactly the groups that this reload's own build
\* made and published, one entry for each folder of its list of which an
\* image embedded, also when another reload runs or has published since.
C25_ResponseListsOwnBuild ==
    /\ [](\A b \in Builds :
            LET r == lc[b]
                f == BuiltFolders(r, 1)
            IN  (r.pc = "done" /\ r.status = 200)
                   => /\ Len(r.resp) = Len(f)
                      /\ Len(r.out) = Len(f)
                      /\ \A j \in 1..Len(f) :
                            /\ r.resp[j].label = r.folderNames[f[j]]
                            /\ r.resp[j].gender
                                  = inferGenderFromFolder(r.folderNames[f[j]])
                            /\ r.resp[j].size = Len(r.oks[f[j]])
                            /\ r.out[j].label = r.resp[j].label
                            /\ r.out[j].gender = r.resp[j].gender
                            /\ r.out[j].size = r.resp[j].size)
    /\ [][\A b \in Builds : Publishes(b) => clusters' = lc'[b].out]_vars

\* A reload answered with two groups while the other reload was running.
C25_Witness ==
    \E b1 \in Builds : \E b2 \in Builds :
       /\ lc[b1].pc = "done" /\ Len(lc[b1].resp) = 2
       /\ Running(b2)

\* A reload's response differs from the cache, which a later reload has
\* replaced.
ResponseOfAnEarlierPublish ==
    \E b1 \in Builds : \E b2 \in Builds :
       /\ lc[b1].pc = "done" /\ lc[b2].pc = "done"
       /\ clusters = lc[b2].out
       /\ Len(lc[b1].resp) # Len(clusters)

---------------------------------------------------------------------------
(* Properties of the build on its own, under SpecBuild and FairBuild.      *)

\* The URLs of folder i of build r that the build samples.
Sampled(r, i) ==
    LET all == FolderUrls(r.folderNames[i]) IN
    {all[k] : k \in 1..(IF Len(all) < MAX_REFS_PER_FOLDER THEN Len(all)
                         ELSE MAX_REFS_PER_FOLDER)}

\* The URLs of the calls of build r that are in flight.
InFlightUrls(r) ==
    {r.workers[w] : w \in {x \in DOMAIN r.workers : r.workers[x] # NoWorker}}

\* C32: with a pool of size 1 or more, every sampled URL of a group is handed
\* to one embedding call and no more: while the group is being embedded the
\* URLs that returned, that failed, that are in flight and that wait in the
\* queue are the sampled URLs, each counted once, and when the group is
\* finished every one of them has returned or failed; a failed call is not
\* repeated, and no embedding failure makes the build fail or skip a later
\* image or group.
C32_EachUrlEmbeddedOnce ==
    /\ [](\A b \in Builds :
            LET r == lc[b] IN
            (config.pool >= 1 /\ r.pc \in {"list", "embed", "done"})
               => \A i \in 1..Len(r.folderNames) :
                     LET ok   == {r.oks[i][k] : k \in 1..Len(r.oks[i])}
                         cur  == r.pc = "embed" /\ i = r.fi
                         fly  == IF cur THEN InFlightUrls(r) ELSE {}
                         wait == IF cur THEN {r.queue[k] : k \in 1..Len(r.queue)}
                                 ELSE {}
                         nfly == IF cur
                                 THEN Cardinality({x \in DOMAIN r.workers :
                                                     r.workers[x] # NoWorker})
                                 ELSE 0
                     IN  IF i < r.fi \/ r.pc = "done" \/ cur
                         THEN /\ ok \cup r.fails[i] \cup fly \cup wait
                                    = Sampled(r, i)
                              /\ Len(r.oks[i]) + Cardinality(r.fails[i]) + nfly
                                    + (IF cur THEN Len(r.queue) ELSE 0)
                                    = Cardinality(Sampled(r, i))
                         ELSE r.oks[i] = <<>> /\ r.fails[i] = {})
    /\ [][\A b \in Builds : lc[b].pc = "embed" => lc'[b].pc # "failed"]_vars

\* A build with a pool of size 3 published two groups after an image of the
\* first folder had failed to embed.
C32_Witness ==
    \E b \in Builds :
       /\ lc[b].pc = "done" /\ config.pool = 3
       /\ Len(lc[b].out) = 2
       /\ lc[b].fails[1] = {"a2"} /\ Len(lc[b].oks[1]) = 2

\* With a pool of size 0 a build ended without embedding any image.
PoolOfSizeZeroSkips ==
    \E b \in Builds :
       /\ lc[b].pc = "done" /\ config.pool = 0
       /\ lc[b].out = <<>> /\ Sampled(lc[b], 1) # {}

\* Builds b1 and b2 have ended with the same folder list and, folder by
\* folder, the same images embedded and the same images failed.
SameInputs(b1, b2) ==
    /\ lc[b1].pc = "done" /\ lc[b2].pc = "done"
    /\ lc[b1].folderNames = lc[b2].folderNames
    /\ \A i \in 1..Len(lc[b1].folderNames) :
          /\ {lc[b1].oks[i][k] : k \in 1..Len(lc[b1].oks[i])}
                = {lc[b2].oks[i][k] : k \in 1..Len(lc[b2].oks[i])}
          /\ lc[b1].fails[i] = lc[b2].fails[i]

\* C33: the published result of a build does not depend on the order in
\* which the embedding calls of the pool complete: two builds over the same
\* listings with the same result for every image publish the same labels,
\* sample counts and centroids.
C33_OrderIndependent ==
    \A b1 \in Builds : \A b2 \in Builds :
       SameInputs(b1, b2) => lc[b1].out = lc[b2].out

\* The labels, gender tags and sample counts of two such builds agree.
LabelsAndCountsAgree ==
    \A b1 \in Builds : \A b2 \in Builds :
       SameInputs(b1, b2)
          => /\ Len(lc[b1].out) = Len(lc[b2].out)
             /\ \A j \in 1..Len(lc[b1].out) :
                   /\ lc[b1].out[j].label = lc[b2].out[j].label
                   /\ lc[b1].out[j].gender = lc[b2].out[j].gender
                   /\ lc[b1].out[j].size = lc[b2].out[j].size

\* Two such builds whose calls completed in the same order, or that ran
\* with a pool of size 1, publish the same centroids as well.
SameOrderSameCentroids ==
    \A b1 \in Builds : \A b2 \in Builds :
       (SameInputs(b1, b2) /\ (lc[b1].oks = lc[b2].oks \/ config.pool <= 1))
          => lc[b1].out = lc[b2].out

\* Two builds embedded the same three images of one folder in different
\* orders and published different centroids.
CentroidsDifferByOrder ==
    \E b1 \in Builds : \E b2 \in Builds :
       /\ SameInputs(b1, b2)
       /\ lc[b1].oks[1] = <<"c1", "c2", "c3">>
       /\ lc[b2].oks[1] = <<"c2", "c3", "c1">>
       /\ lc[b1].out[1].centroid # lc[b2].out[1].centroid

\* The name, in lower case, contains "female".
HasFemale(n) == includes(n, <<"f","e","m","a","l","e">>)

\* The name, in lower case, contains a "male" that is not part of "female".
HasMale(n) ==
    \E k \in 0..(Len(n) - 4) :
       /\ SubSeq(n, k + 1, k + 4) = <<"m","a","l","e">>
       /\ ~(k >= 2 /\ n[k - 1] = "f" /\ n[k] = "e")

\* C34: the gender tag of a group is female when its name contains "female",
\* male when it contains "male", whatever the case of the letters, unknown
\* when it contains neither, and unknown when it matches both tags.
C34_GenderFromName ==
    \A i \in 1..Len(clusters) :
       LET n == toLowerCase(Chars(clusters[i].label)) IN
       clusters[i].gender =
          IF HasFemale(n) /\ HasMale(n) THEN "unknown"
          ELSE IF HasFemale(n) THEN "female"
          ELSE IF HasMale(n) THEN "male"
          ELSE "unknown"

\* What the code does: "female" is tested first, and a name that matches
\* both tags is tagged female.
FemaleTestedFirst ==
    \A i \in 1..Len(clusters) :
       LET n == toLowerCase(Chars(clusters[i].label)) IN
       clusters[i].gender =
          IF HasFemale(n) THEN "female"
          ELSE IF HasMale(n) THEN "male"
          ELSE "unknown"

\* The groups "Male and Female", "FEMALE Faces", "Males" and "Reference
\* Mixed" were published with the tags female, female, male and unknown.
BothTagsGiveFemale ==
    /\ Len(clusters) = 4
    /\ clusters[1].label = "Male and Female" /\ clusters[1].gender = "female"
    /\ clusters[2].label = "FEMALE Faces" /\ clusters[2].gender = "female"
    /\ clusters[3].label = "Males" /\ clusters[3].gender = "male"
    /\ clusters[4].label = "Reference Mixed" /\ clusters[4].gender = "unknown"

\* C36: a build whose storage calls and embedding calls all return or fail
\* terminates: while a group is embedded some call is in flight until the
\* queue is empty and every worker has left, the groups are finished in
\* turn, and the build ends by publishing a group set or by failing.
C36_BuildTerminates ==
    /\ \A b \in Builds : Running(b) ~> lc[b].pc \in {"done", "failed"}
    /\ [](\A b \in Builds :
            /\ lc[b].pc = "embed" => InFlightUrls(lc[b]) # {}
            /\ lc[b].pc = "done"
                 => /\ lc[b].fi = Len(lc[b].folderNames) + 1
                    /\ lc[b].queue = <<>> /\ lc[b].workers = <<>>
                    /\ lc[b].status = 200)

\* A build over two folders with images ended by publishing, another by
\* failing after it had finished a group.
C36_Witness ==
    \E b1 \in Builds : \E b2 \in Builds :
       /\ lc[b1].pc = "done" /\ Len(lc[b1].out) = 2
       /\ lc[b2].pc = "failed" /\ Len(lc[b2].out) = 1

---------------------------------------------------------------------------
(* Properties of two evaluations, under SpecPair.                          *)

Answered200(e) == ev[e].pc = "done" /\ ev[e].status = 200 /\ ev[e].scored

\* The two evaluations had the same embedding results from the same cache.
SameRun(e1, e2) ==
    /\ ev[e1].failedAt = ev[e2].failedAt
    /\ ev[e1].atCheck = ev[e2].atCheck
    /\ ev[e1].atScan = ev[e2].atScan

SameRequestTwice ==
    /\ Answered200("e1") /\ Answered200("e2")
    /\ ev["e1"].body = ev["e2"].body
    /\ ev["e1"].body.photos = <<"q2", "q1">>
    /\ ev["e1"].failedAt = {1} /\ ev["e2"].failedAt = {1}
    /\ ev["e1"].confidence = ev["e2"].confidence
    /\ ev["e1"].face_cluster # "none"

\* The order of the list matters to the term, and the embedding results to
\* the answer: the lists q1, q2 and q2, q1 got different terms, and the same
\* request got different confidences when a photo embedded in one evaluation
\* and failed in the other.
OrderAndResultsMatter ==
    \/ /\ Answered200("e1") /\ Answered200("e2")
       /\ ev["e1"].body.photos = <<"q1", "q2">>
       /\ ev["e2"].body.photos = <<"q2", "q1">>
       /\ ev["e1"].tinyNoise # ev["e2"].tinyNoise
    \/ /\ Answered200("e1") /\ Answered200("e2")
       /\ ev["e1"].body = ev["e2"].body
       /\ ev["e1"].failedAt # ev["e2"].failedAt
       /\ ev["e1"].confidence # ev["e2"].confidence

---------------------------------------------------------------------------
(* Properties of the vector math, under SpecCosine.                        *)

\* The evaluation was answered after a scan of the cache.
Scanned(e) ==
    /\ ev[e].pc = "done" /\ ev[e].status = 200
    /\ ev[e].photoVecs # <<>> /\ ev[e].atScan # <<>>

\* The submission vector of the evaluation.
AvgOf(e) == Average(ev[e].photoVecs)

\* The squared magnitude of a vector.
Mag2(v) == SumTo([i \in 1..Len(v) |-> v[i] * v[i]], Len(v))

\* C35: the similarity of two vectors does not depend on their order, is 1
\* for a nonzero vector and itself, is 0 when either vector has magnitude
\* zero, and depends only on the first min(len a, len b) components of the
\* two vectors.
C35_CosineLaws ==
    \A e1 \in PairEvals : \A e2 \in PairEvals :
       Scanned(e1) /\ Scanned(e2) =>
          \A i \in 1..Len(ev[e1].atScan) : \A j \in 1..Len(ev[e2].atScan) :
             LET a1 == AvgOf(e1)
                 a2 == AvgOf(e2)
                 ci == ev[e1].atScan[i].centroid
                 cj == ev[e2].atScan[j].centroid
                 L1 == Min(Len(a1), Len(ci))
                 L2 == Min(Len(a2), Len(cj))
             IN  /\ ci = a2 /\ cj = a1 => ev[e1].sims[i] = ev[e2].sims[j]
                 /\ ci = a1 /\ Mag2(a1) # 0 => ev[e1].sims[i] = One
                 /\ Mag2(a1) = 0 \/ Mag2(ci) = 0 => ev[e1].sims[i] = 0
                 /\ Take(a1, L1) = Take(a2, L2) /\ Take(ci, L1) = Take(cj, L2)
                       => ev[e1].sims[i] = ev[e2].sims[j]

\* One evaluation scanned the cache with the vector (1, 0) and another with
\* (1/2, 1/2): each found the other's vector among the centroids with the
\* same similarity, strictly between 0 and 1; the first found 1 for its own
\* vector and for (1, 0, 7/12), and 0 for (0, 0) and for (0, 0, 5/12).
C35_Witness ==
    /\ Scanned("e1") /\ Scanned("e2")
    /\ AvgOf("e1") = <<Scale, 0>>
    /\ AvgOf("e2") = <<Scale \div 2, Scale \div 2>>
    /\ ev["e1"].atScan[1].centroid = <<Scale, 0>>
    /\ ev["e1"].atScan[3].centroid = <<Scale \div 2, Scale \div 2>>
    /\ ev["e1"].atScan[4].centroid = <<0, 0>>
    /\ ev["e1"].atScan[6].centroid = <<Scale, 0, 7>>
    /\ ev["e1"].atScan[7].centroid = <<0, 0, 5>>
    /\ ev["e1"].sims[3] = ev["e2"].sims[1]
    /\ 0 < ev["e1"].sims[3] /\ ev["e1"].sims[3] < One
    /\ ev["e1"].sims[1] = One /\ ev["e1"].sims[6] = One
    /\ ev["e1"].sims[4] = 0 /\ ev["e1"].sims[7] = 0

\* A submission of magnitude zero, the average of q1 and q3, was scanned: all
\* its similarities are 0; and a submission of one component was scanned.
ZeroAndShortSubmissions ==
    /\ Scanned("e1") /\ Scanned("e2")
    /\ Len(ev["e1"].photoVecs) = 2 /\ Mag2(AvgOf("e1")) = 0
    /\ \A i \in 1..Len(ev["e1"].sims) : ev["e1"].sims[i] = 0
    /\ Len(AvgOf("e2")) = 1
    /\ \E i \in 1..Len(ev["e2"].sims) :
          Len(ev["e2"].atScan[i].centroid) = 3 /\ ev["e2"].sims[i] = One

====
